---- MODULE Spec2Model ----
(***************************************************************************)
(* State-machine model of the ISO/IEC 7816 T=1 protocol engine             *)
(* (usermods/scard/t1_protocol) and of the CardConnection layer            *)
(* (usermods/scard/connection.c) of f469-disco.                            *)
(*                                                                         *)
(* Sequential C code is modelled functionally: every C function that       *)
(* works on t1_inst_t is an operator that takes the instance record and    *)
(* yields the instance record after the call.  The record carries, next to *)
(* the fields of t1_inst_t, the observable effects of the current API      *)
(* call: "out" (the buffers handed to cb_serial_out, in call order),       *)
(* "evs" (the events handed to cb_handle_event, in call order, each with   *)
(* the FSM state at the time of the callback), "ret" (the value returned   *)
(* by the function just modelled) and "tx_ok" (what cb_serial_out returns  *)
(* during this API call, an input chosen by the environment).              *)
(*                                                                         *)
(* Loops over bytes are written as folds over an index range that split    *)
(* the range in halves; the bytes are still visited first to last.         *)
(***************************************************************************)
EXTENDS Integers, Sequences, FiniteSets, TLC

(***************************************************************************)
(* Bytes and bit operations                                                *)
(***************************************************************************)
Min(a, b) == IF a < b THEN a ELSE b

\* A local variable: v is computed once and named by the parameter of F
Bind(v, F(_)) == F(v)

\* The same for the accumulator of a loop: v is evaluated before F is entered,
\* as a C statement completes before the next one starts
Strict(v, F(_)) == IF v = v THEN F(v) ELSE F(v)
StrictRec(v, F(_)) == IF DOMAIN v = DOMAIN v THEN F(v) ELSE F(v)

RECURSIVE BitXor(_, _)
BitXor(a, b) ==
  IF a = 0 THEN b
  ELSE IF b = 0 THEN a
  ELSE (((a % 2) + (b % 2)) % 2) + 2 * BitXor(a \div 2, b \div 2)

RECURSIVE BitAnd(_, _)
BitAnd(a, b) ==
  IF a = 0 \/ b = 0 THEN 0
  ELSE ((a % 2) * (b % 2)) + 2 * BitAnd(a \div 2, b \div 2)

RECURSIVE BitOr(_, _)
BitOr(a, b) ==
  IF a = 0 THEN b
  ELSE IF b = 0 THEN a
  ELSE (IF (a % 2) + (b % 2) > 0 THEN 1 ELSE 0) + 2 * BitOr(a \div 2, b \div 2)

\* s[lo..hi] of a sequence (1-based, empty when lo > hi)
Slice(s, lo, hi) == [i \in 1..(hi - lo + 1) |-> s[lo + i - 1]]

(***************************************************************************)
(* Program constants                                                       *)
(***************************************************************************)
T1_TX_FIFO_SIZE == 1024
T1_MAX_APDU_SIZE == 255
T1_MAX_TIMEOUT_MS == 100000
T1_MAX_LEN_VALUE == 254
T1_RX_BUF_SIZE == 3 + T1_MAX_LEN_VALUE + 2
TM_MAX == T1_MAX_TIMEOUT_MS
prologue_size == 3
MAX_EDC_LEN == 2
MAX_IBLOCK_OVH == prologue_size + MAX_EDC_LEN
MAX_IBLOCK_SIZE == T1_MAX_APDU_SIZE + MAX_IBLOCK_OVH
LRC_SIZE == 1
CRC_SIZE == 2
DELIVERY_ATTEMPTS == 10
RESYNC_ATTEMPTS == 3
IFS_MIN == 1
IFS_MAX == 254
PPSS == 255
MAX_EVENTS == 3
UINT8_MAX == 255
ATR_MIN_BYTES == 2
TS_CONVENTION_DIRECT == 59
TS_CONVENTION_INVERSE == 63
CCID_CLASS_AUTO_PPS_CUR == 128
\* sizeof(block_hdr_t): 13 bits of bit-fields in one unsigned int
HDR_SIZE == 4
\* Size of the local buffer of tx_fifo_send_last_block
SEND_BUF_SIZE == 256

\* PCB bits
IB_NS_BIT == 64
IB_M_BIT == 32
RB_MARKER == 128
RB_NS_BIT == 16
SB_MARKER == 192
SB_RESP_BIT == 32

\* t1_block_type_t
t1_block_unkn == 0
t1_block_i == 1
t1_block_r == 2
t1_block_s == 3

\* t1_rblock_ack_t
t1_rblock_ack_ok == 0
t1_rblock_ack_err_edc == 1
t1_rblock_ack_err_other == 2

\* t1_sblock_cmd_t
t1_sblock_cmd_resynch == 0
t1_sblock_cmd_ifs == 1
t1_sblock_cmd_abort == 2
t1_sblock_cmd_wtx == 3

\* t1_ev_code_t; t1_ev_pps_exchange_done is a non-error event (protocols.c
\* handles it in the branch taken when t1_is_error_event() is false)
t1_ev_none == 0
t1_ev_atr_received == 1
t1_ev_connect == 2
t1_ev_apdu_received == 3
t1_ev_pps_exchange_done == 4
t1_ev_err_internal == 100
t1_ev_err_serial_out == 101
t1_ev_err_comm_failure == 102
t1_ev_err_atr_timeout == 103
t1_ev_err_bad_atr == 104
t1_ev_err_incompatible == 105
t1_ev_err_oversized_apdu == 106
t1_ev_err_sc_abort == 107
t1_ev_pps_failed == 108

\* ext_config[]: allowed range and default of every configuration parameter
ext_config ==
  [ tm_interbyte    |-> [min |-> 1, max |-> TM_MAX, def |-> 200],
    tm_atr          |-> [min |-> 1, max |-> TM_MAX, def |-> 1000],
    tm_response     |-> [min |-> 1, max |-> TM_MAX, def |-> 2000],
    tm_response_max |-> [min |-> 1, max |-> TM_MAX, def |-> 4000],
    use_crc         |-> [min |-> 0, max |-> 1, def |-> 0],
    ifsc            |-> [min |-> IFS_MIN, max |-> IFS_MAX, def |-> 32],
    ifsd            |-> [min |-> IFS_MIN, max |-> IFS_MAX, def |-> IFS_MAX],
    dw_fetures      |-> [min |-> 0, max |-> 2147483647, def |-> 0],
    pps_size        |-> [min |-> 3, max |-> 5, def |-> 3],
    ta1_value       |-> [min |-> 0, max |-> 255, def |-> 17],
    is_usb_reader   |-> [min |-> 0, max |-> 1, def |-> 0],
    rx_skip_bytes   |-> [min |-> 0, max |-> 255, def |-> 0] ]

ConfigIds == DOMAIN ext_config

(***************************************************************************)
(* fifo_buf.h                                                              *)
(***************************************************************************)
fifo_init(buf, nelem) == [buf |-> buf, head |-> 0, nelem |-> nelem, tail |-> 0]

fifo_clear(fifo) == [fifo EXCEPT !.head = 0, !.tail = 0]

fifo_nfree(fifo) ==
  IF fifo.head >= fifo.tail
    THEN fifo.nelem - fifo.head + fifo.tail - 1
    ELSE fifo.tail - fifo.head - 1

fifo_nused(fifo) ==
  IF fifo.head >= fifo.tail
    THEN fifo.head - fifo.tail
    ELSE fifo.nelem - fifo.tail + fifo.head

fifo_push(fifo, byte) ==
  [fifo EXCEPT !.buf[fifo.head] = byte,
               !.head = IF fifo.head >= fifo.nelem - 1 THEN 0 ELSE fifo.head + 1]

\* fifo_push_buf: fifo_push for src[lo], ..., src[hi] in this order
RECURSIVE fifo_push_range(_, _, _, _)
fifo_push_range(fifo, src, lo, hi) ==
  IF lo > hi THEN fifo
  ELSE IF lo = hi THEN fifo_push(fifo, src[lo])
  ELSE StrictRec(fifo_push_range(fifo, src, lo, (lo + hi) \div 2),
                 LAMBDA f : fifo_push_range(f, src, (lo + hi) \div 2 + 1, hi))

fifo_push_buf(fifo, src) == fifo_push_range(fifo, src, 1, Len(src))

\* fifo_pop: the byte at the tail and the FIFO without it
fifo_pop(fifo) ==
  [byte |-> fifo.buf[fifo.tail],
   fifo |-> [fifo EXCEPT !.tail = IF fifo.tail >= fifo.nelem - 1 THEN 0 ELSE fifo.tail + 1]]

\* the FIFO after k calls of fifo_pop
RECURSIVE fifo_pop_times(_, _)
fifo_pop_times(fifo, k) ==
  IF k = 0 THEN fifo ELSE fifo_pop_times(fifo_pop(fifo).fifo, k - 1)

\* fifo_pop_buf: min(nbytes, dst_size) bytes taken with fifo_pop
fifo_pop_buf(fifo, dst_size, nbytes) ==
  LET len == IF nbytes <= dst_size THEN nbytes ELSE dst_size
  IN  [bytes |-> [i \in 1..len |-> fifo_pop(fifo_pop_times(fifo, i - 1)).byte],
       fifo  |-> fifo_pop_times(fifo, len)]

fifo_get_read_idx(fifo) == fifo.tail

\* fifo_read: the byte at the read index and the advanced read index
fifo_read(fifo, read_idx) ==
  [byte |-> fifo.buf[read_idx],
   idx  |-> IF read_idx >= fifo.nelem - 1 THEN 0 ELSE read_idx + 1]

\* read index after k calls of fifo_read starting at read_idx
RECURSIVE fifo_read_idx_after(_, _, _)
fifo_read_idx_after(fifo, read_idx, k) ==
  IF k = 0 THEN read_idx
  ELSE IF k = 1 THEN fifo_read(fifo, read_idx).idx
  ELSE Strict(fifo_read_idx_after(fifo, read_idx, k \div 2),
              LAMBDA idx : fifo_read_idx_after(fifo, idx, k - k \div 2))

\* fifo_read_buf: min(nbytes, dst_size) bytes read with fifo_read, and the
\* read index afterwards
fifo_read_buf(fifo, read_idx, dst_size, nbytes) ==
  LET len == IF nbytes <= dst_size THEN nbytes ELSE dst_size
  IN  [bytes |-> [i \in 1..len |->
                    fifo_read(fifo, fifo_read_idx_after(fifo, read_idx, i - 1)).byte],
       idx   |-> fifo_read_idx_after(fifo, read_idx, len)]

\* A fifo_remove that does not wrap the tail
fifo_remove_no_wrap(fifo, nbytes) == [fifo EXCEPT !.tail = fifo.tail + nbytes]

fifo_remove(fifo, nbytes) ==
  LET t == fifo.tail + nbytes
  IN  [fifo EXCEPT !.tail = IF t >= fifo.nelem THEN t % fifo.nelem ELSE t]

(***************************************************************************)
(* Error detection codes                                                   *)
(***************************************************************************)
crc_tbl ==
  <<
  0, 4489, 8978, 12955, 17956, 22445, 25910, 29887,
  35912, 40385, 44890, 48851, 51820, 56293, 59774, 63735,
  4225, 264, 13203, 8730, 22181, 18220, 30135, 25662,
  40137, 36160, 49115, 44626, 56045, 52068, 63999, 59510,
  8450, 12427, 528, 5017, 26406, 30383, 17460, 21949,
  44362, 48323, 36440, 40913, 60270, 64231, 51324, 55797,
  12675, 8202, 4753, 792, 30631, 26158, 21685, 17724,
  48587, 44098, 40665, 36688, 64495, 60006, 55549, 51572,
  16900, 21389, 24854, 28831, 1056, 5545, 10034, 14011,
  52812, 57285, 60766, 64727, 34920, 39393, 43898, 47859,
  21125, 17164, 29079, 24606, 5281, 1320, 14259, 9786,
  57037, 53060, 64991, 60502, 39145, 35168, 48123, 43634,
  25350, 29327, 16404, 20893, 9506, 13483, 1584, 6073,
  61262, 65223, 52316, 56789, 43370, 47331, 35448, 39921,
  29575, 25102, 20629, 16668, 13731, 9258, 5809, 1848,
  65487, 60998, 56541, 52564, 47595, 43106, 39673, 35696,
  33800, 38273, 42778, 46739, 49708, 54181, 57662, 61623,
  2112, 6601, 11090, 15067, 20068, 24557, 28022, 31999,
  38025, 34048, 47003, 42514, 53933, 49956, 61887, 57398,
  6337, 2376, 15315, 10842, 24293, 20332, 32247, 27774,
  42250, 46211, 34328, 38801, 58158, 62119, 49212, 53685,
  10562, 14539, 2640, 7129, 28518, 32495, 19572, 24061,
  46475, 41986, 38553, 34576, 62383, 57894, 53437, 49460,
  14787, 10314, 6865, 2904, 32743, 28270, 23797, 19836,
  50700, 55173, 58654, 62615, 32808, 37281, 41786, 45747,
  19012, 23501, 26966, 30943, 3168, 7657, 12146, 16123,
  54925, 50948, 62879, 58390, 37033, 33056, 46011, 41522,
  23237, 19276, 31191, 26718, 7393, 3432, 16371, 11898,
  59150, 63111, 50204, 54677, 41258, 45219, 33336, 37809,
  27462, 31439, 18516, 23005, 11618, 15595, 3696, 8185,
  63375, 58886, 54429, 50452, 45483, 40994, 37561, 33584,
  31687, 27214, 22741, 18780, 15843, 11370, 7921, 3960
  >>

\* calc_lrc: XOR of src[lo..hi] (XOR is associative, the range is halved)
RECURSIVE lrc_range(_, _, _)
lrc_range(src, lo, hi) ==
  IF lo > hi THEN 0
  ELSE IF lo = hi THEN src[lo]
  ELSE LET mid == (lo + hi) \div 2
       IN  BitXor(lrc_range(src, lo, mid), lrc_range(src, mid + 1, hi))

calc_lrc(src) == << lrc_range(src, 1, Len(src)) >>

\* one step of the CRC loop: crc = ((crc >> 8) & 0xFF) ^ crc_tbl[(crc ^ b) & 0xFF]
crc_step(crc, b) ==
  BitXor((crc \div 256) % 256, crc_tbl[(BitXor(crc, b) % 256) + 1])

RECURSIVE crc_range(_, _, _, _)
crc_range(crc, src, lo, hi) ==
  IF lo > hi THEN crc
  ELSE IF lo = hi THEN crc_step(crc, src[lo])
  ELSE Strict(crc_range(crc, src, lo, (lo + hi) \div 2),
              LAMBDA c : crc_range(c, src, (lo + hi) \div 2 + 1, hi))

calc_crc(src) ==
  LET crc == crc_range(65535, src, 1, Len(src))
  IN  << (crc \div 256) % 256, crc % 256 >>

\* calc_edc_multi / calc_edc: the destination always has MAX_EDC_LEN bytes
calc_edc(inst, src) ==
  IF inst.config.use_crc # 0 THEN calc_crc(src) ELSE calc_lrc(src)

edc_size(inst) == IF inst.config.use_crc # 0 THEN CRC_SIZE ELSE LRC_SIZE

(***************************************************************************)
(* t1_inst_t                                                               *)
(***************************************************************************)
\* t1_fsm_state_t
t1_st_wait_atr == "wait_atr"
t1_st_pps_exchange == "pps_exchange"
t1_st_ifsd_setup_prepare == "ifsd_setup_prepare"
t1_st_ifsd_setup == "ifsd_setup"
t1_st_idle == "idle"
t1_st_wait_response == "wait_response"
t1_st_resync == "resync"
t1_st_error == "error"

\* t1_rx_state_t
t1_rxs_skip == "skip"
t1_rxs_nad == "nad"
t1_rxs_pcb == "pcb"
t1_rxs_len == "len"
t1_rxs_inf == "inf"
t1_rxs_edc == "edc"

\* A uint32_t timer variable: bit 31 ("hi", set by timer_elapsed once the timer
\* has been checked) and bits 0..30 ("lo", the remaining milliseconds)
Tmr(ms) == [hi |-> FALSE, lo |-> ms]
TmrNonZero(t) == t.hi \/ t.lo # 0

\* event_t; prm is the raw ATR for atr_received and err_incompatible, the
\* marker <<-1>> for the pointer to rx_apdu_prm, empty otherwise
event(ev_code) == [code |-> ev_code, prm |-> << >>]
event_ext(ev_code, ev_prm) == [code |-> ev_code, prm |-> ev_prm]
event_none == event(t1_ev_none)
is_error(ev) == ev.code >= t1_ev_err_internal
PrmApdu == << -1 >>

\* t1_block_prm_t; "u" is the union of iblock_prm, rblock_prm and sblock_prm
BlockUnkn == [block_type |-> t1_block_unkn, inf_len |-> 0, u |-> << >>]

\* The instance as m_new0() leaves it (all bytes zero) before t1_init
ZeroInst ==
  [ fsm_state |-> t1_st_wait_atr,
    tx_fifo |-> fifo_init([i \in 0..(T1_TX_FIFO_SIZE - 1) |-> 0], 0),
    tx_fifo_nblock |-> 0,
    tx_seq_number |-> 0,
    tx_last_seq_number |-> 0,
    tx_attempts |-> 0,
    tx_prev_block_prm |-> BlockUnkn,
    tx_block_ctr |-> 0,
    config |-> [id \in ConfigIds |-> 0],
    rx_buf |-> [i \in 0..(T1_RX_BUF_SIZE - 1) |-> 0],
    rx_buf_idx |-> 0,
    rx_block_prm |-> BlockUnkn,
    rx_state |-> t1_rxs_skip,
    rx_expected_bytes |-> 0,
    rx_apdu |-> [i \in 0..(T1_MAX_APDU_SIZE - 1) |-> 0],
    rx_apdu_len |-> 0,
    rx_new_apdu |-> FALSE,
    rx_bad_block |-> FALSE,
    rx_seq_number |-> 0,
    tmr_interbyte_timeout |-> Tmr(0),
    tmr_atr_timeout |-> Tmr(0),
    tmr_response_timeout |-> Tmr(0),
    \* effects and inputs of the current API call
    out |-> << >>,
    evs |-> << >>,
    elist |-> << >>,
    ret |-> event_none,
    tx_ok |-> TRUE,
    \* the wrapper of protocols.c: the results of the writes to the interface
    \* in the current API call, in call order, the last one standing for all
    \* further writes (empty: cb_serial_out is not the wrapper and returns
    \* tx_ok), and the field tx_errors of its handle
    hw |-> << >>,
    tx_errors |-> 0 ]

\* An API call starts with no output, no delivered events, an empty local
\* event list and the environment's answer for cb_serial_out
Enter(inst, tx_ok) ==
  [inst EXCEPT !.out = << >>, !.evs = << >>, !.elist = << >>,
               !.ret = event_none, !.tx_ok = tx_ok]

Ret(inst, v) == [inst EXCEPT !.ret = v]

\* event_add on the local event list of the current API call
event_add(inst, event_in) ==
  IF event_in.code # t1_ev_none
    THEN IF Len(inst.elist) >= MAX_EVENTS
           THEN [inst EXCEPT !.elist = [inst.elist EXCEPT ![MAX_EVENTS] = event(t1_ev_err_internal)]]
           ELSE [inst EXCEPT !.elist = Append(inst.elist, event_in)]
    ELSE inst

\* event_add(&events, f(inst)) where f left its result in inst.ret
add_ret(inst) == event_add(inst, inst.ret)

reset_rx(inst) ==
  [inst EXCEPT !.rx_buf_idx = 0,
               !.rx_block_prm.block_type = t1_block_unkn,
               !.rx_block_prm.inf_len = 0,
               !.rx_state = t1_rxs_skip,
               !.rx_expected_bytes = -1,
               !.tmr_interbyte_timeout = Tmr(0)]

t1_reset(inst, wait_atr) ==
  [reset_rx([inst EXCEPT
               !.fsm_state = IF wait_atr THEN t1_st_wait_atr ELSE t1_st_idle,
               !.tx_fifo = fifo_clear(inst.tx_fifo),
               !.tx_fifo_nblock = 0,
               !.tx_seq_number = 0,
               !.tx_last_seq_number = 0,
               !.tx_attempts = 0,
               !.tx_prev_block_prm.block_type = t1_block_unkn,
               !.tx_prev_block_prm.inf_len = 0,
               !.tx_block_ctr = 0])
     EXCEPT !.rx_apdu_len = 0,
            !.rx_seq_number = 0,
            !.rx_new_apdu = TRUE,
            !.rx_bad_block = FALSE,
            !.tmr_atr_timeout = IF wait_atr THEN Tmr(inst.config.tm_atr) ELSE Tmr(0),
            !.tmr_response_timeout = Tmr(0)]

(***************************************************************************)
(* Transmit side                                                           *)
(***************************************************************************)
\* block_hdr_t as the 4 bytes pushed into the FIFO (bit-fields allocated from
\* bit 0 of a little-endian unsigned int: size:9, type:2, more_data:1,
\* seq_number:1)
hdr_bytes(hdr) ==
  LET v == (hdr.size % 512) + 512 * hdr.type + 2048 * hdr.more_data + 4096 * hdr.seq_number
  IN  << v % 256, (v \div 256) % 256, 0, 0 >>

hdr_from_bytes(b) ==
  LET v == b[1] + 256 * b[2]
  IN  [size |-> v % 512, type |-> (v \div 512) % 4,
       more_data |-> (v \div 2048) % 2, seq_number |-> (v \div 4096) % 2]

\* push_block once prologue and epilogue (the EDC) are computed
push_block_edc(inst, type, prologue, inf, epilogue, more_data, seq_number) ==
  LET epilogue_size == Len(epilogue)
      block_size == prologue_size + Len(inf) + epilogue_size
      hdr == [size |-> block_size, type |-> type,
              more_data |-> IF more_data THEN 1 ELSE 0, seq_number |-> seq_number]
  IN  IF /\ Len(inf) <= inst.config.ifsc
         /\ epilogue_size # 0
         /\ block_size <= MAX_IBLOCK_SIZE
         /\ block_size + HDR_SIZE <= fifo_nfree(inst.tx_fifo)
        THEN [inst EXCEPT
                !.tx_fifo = fifo_push_buf(fifo_push_buf(fifo_push_buf(fifo_push_buf(
                              inst.tx_fifo, hdr_bytes(hdr)), prologue), inf), epilogue),
                !.tx_fifo_nblock = inst.tx_fifo_nblock + 1,
                !.ret = TRUE]
        ELSE Ret(inst, FALSE)

push_block(inst, type, pcb, inf, more_data, seq_number) ==
  push_block_edc(inst, type, << 0, pcb, Len(inf) % 256 >>, inf,
                 calc_edc(inst, << 0, pcb, Len(inf) % 256 >> \o inf), more_data, seq_number)

push_iblock(inst, inf, more_data) ==
  LET pcb == BitOr(IF inst.tx_seq_number # 0 THEN IB_NS_BIT ELSE 0,
                   IF more_data THEN IB_M_BIT ELSE 0)
  IN  Bind(push_block(inst, t1_block_i, pcb, inf, more_data, inst.tx_seq_number),
           LAMBDA r : IF r.ret
                        THEN [r EXCEPT !.tx_seq_number = BitXor(inst.tx_seq_number, 1)]
                        ELSE r)

iblock_chain_size(inst, apdu_len, ifsc) ==
  IF ifsc # 0
    THEN LET iblock_overhead == prologue_size + edc_size(inst)
             whole_blocks == apdu_len \div ifsc
             extra_bytes == apdu_len % ifsc
         IN  whole_blocks * (ifsc + iblock_overhead) +
             (IF extra_bytes # 0 THEN extra_bytes + iblock_overhead ELSE 0)
    ELSE 0

\* chain_step that sets the more-data bit of a block that exactly ends the APDU
chain_step_more_ge(inst, apdu, ifsc, k) ==
  IF inst.ret = FALSE THEN inst
  ELSE LET rm_bytes == Len(apdu) - k * ifsc
           inf_len == IF rm_bytes > ifsc THEN ifsc ELSE rm_bytes
       IN  push_iblock(inst, Slice(apdu, k * ifsc + 1, k * ifsc + inf_len),
                       rm_bytes >= ifsc)

\* One pass of the while loop of push_iblock_chain for the block that starts
\* at APDU offset k * ifsc; a failed push_iblock has returned false before
chain_step(inst, apdu, ifsc, k) ==
  IF inst.ret = FALSE THEN inst
  ELSE LET rm_bytes == Len(apdu) - k * ifsc
           inf_len == IF rm_bytes > ifsc THEN ifsc ELSE rm_bytes
       IN  push_iblock(inst, Slice(apdu, k * ifsc + 1, k * ifsc + inf_len),
                       rm_bytes > ifsc)

RECURSIVE chain_range(_, _, _, _, _)
chain_range(inst, apdu, ifsc, lo, hi) ==
  IF lo > hi THEN inst
  ELSE IF lo = hi THEN chain_step(inst, apdu, ifsc, lo)
  ELSE StrictRec(chain_range(inst, apdu, ifsc, lo, (lo + hi) \div 2),
                 LAMBDA r : chain_range(r, apdu, ifsc, (lo + hi) \div 2 + 1, hi))

push_iblock_chain(inst, apdu) ==
  LET ifsc == inst.config.ifsc
      apdu_len == Len(apdu)
      tot_size == iblock_chain_size(inst, apdu_len, ifsc)
  IN  IF tot_size # 0 /\ tot_size <= fifo_nfree(inst.tx_fifo)
        THEN chain_range(Ret(inst, TRUE), apdu, ifsc, 0, ((apdu_len + ifsc - 1) \div ifsc) - 1)
        ELSE Ret(inst, FALSE)

MAX_TX_ERRORS_T1 == 2

\* t1_cb_serial_out reporting the failure that reaches the limit
t1_cb_serial_out_at_limit(inst, buf) ==
  LET status == Head(inst.hw)
      i1 == [inst EXCEPT !.out = Append(inst.out, buf),
                         !.hw = IF Len(inst.hw) > 1 THEN Tail(inst.hw) ELSE inst.hw]
  IN  IF status
        THEN [i1 EXCEPT !.tx_errors = 0, !.ret = TRUE]
      ELSE IF inst.tx_errors + 1 >= MAX_TX_ERRORS_T1
        THEN [i1 EXCEPT !.tx_errors = MAX_TX_ERRORS_T1, !.ret = FALSE]
      ELSE [i1 EXCEPT !.tx_errors = inst.tx_errors + 1, !.ret = TRUE]

\* t1_cb_serial_out of protocols.c; status is what the write to the interface
\* returns
t1_cb_serial_out(inst, buf) ==
  LET status == Head(inst.hw)
      i1 == [inst EXCEPT !.out = Append(inst.out, buf),
                         !.hw = IF Len(inst.hw) > 1 THEN Tail(inst.hw) ELSE inst.hw]
  IN  IF status
        THEN [i1 EXCEPT !.tx_errors = 0, !.ret = TRUE]
      ELSE IF inst.tx_errors >= MAX_TX_ERRORS_T1
        THEN [i1 EXCEPT !.ret = FALSE]
      ELSE [i1 EXCEPT !.tx_errors = inst.tx_errors + 1, !.ret = TRUE]

\* inst->cb_serial_out(buf, len, p_user_prm)
cb_serial_out(inst, buf) ==
  IF inst.hw # << >>
    THEN t1_cb_serial_out(inst, buf)
    ELSE [inst EXCEPT !.out = Append(inst.out, buf), !.ret = inst.tx_ok]

send_sblock(inst, command, is_response, inf_byte) ==
  LET pcb == BitOr(BitOr(SB_MARKER, command), IF is_response THEN SB_RESP_BIT ELSE 0)
      len == IF inf_byte >= 0 THEN 1 ELSE 0
      body == IF len = 1 THEN << 0, pcb, len, inf_byte % 256 >> ELSE << 0, pcb, len >>
  IN  Bind(cb_serial_out(inst, body \o calc_edc(inst, body)),
           LAMBDA r :
             IF ~r.ret
               THEN Ret(r, event(t1_ev_err_serial_out))
               ELSE [r EXCEPT
                       !.tx_block_ctr = IF inst.tx_block_ctr < UINT8_MAX
                                          THEN inst.tx_block_ctr + 1 ELSE inst.tx_block_ctr,
                       !.tmr_response_timeout = Tmr(inst.config.tm_response),
                       !.tx_prev_block_prm =
                          [block_type |-> t1_block_s, inf_len |-> len,
                           u |-> [command |-> command, is_response |-> is_response,
                                  inf_byte |-> inf_byte]],
                       !.ret = event_none])

send_rblock(inst, ack_code, seq_number) ==
  LET pcb == BitOr(BitOr(RB_MARKER, IF seq_number # 0 THEN RB_NS_BIT ELSE 0), ack_code)
      body == << 0, pcb, 0 >>
  IN  Bind(cb_serial_out(inst, body \o calc_edc(inst, body)),
           LAMBDA r :
             IF ~r.ret
               THEN Ret(r, event(t1_ev_err_serial_out))
               ELSE [r EXCEPT
                       !.tmr_response_timeout = Tmr(inst.config.tm_response),
                       !.tx_prev_block_prm =
                          [block_type |-> t1_block_r, inf_len |-> 0,
                           u |-> [ack_code |-> ack_code, seq_number |-> seq_number]],
                       !.ret = event_none])

tx_fifo_has_block(inst) == fifo_nused(inst.tx_fifo) > HDR_SIZE

\* The block header at the tail of the TX FIFO and the read index behind it
tx_fifo_head_block(inst) ==
  LET rd == fifo_read_buf(inst.tx_fifo, fifo_get_read_idx(inst.tx_fifo), HDR_SIZE, HDR_SIZE)
  IN  [hdr |-> hdr_from_bytes(rd.bytes), idx |-> rd.idx]

\* The while loop of tx_fifo_send_last_block: the block leaves in pieces of at
\* most SEND_BUF_SIZE bytes; the loop ends at the first failed cb_serial_out
RECURSIVE send_pieces(_, _, _)
send_pieces(inst, read_idx, block_size) ==
  IF block_size = 0 THEN Ret(inst, TRUE)
  ELSE LET out_len == Min(block_size, SEND_BUF_SIZE)
           rd == fifo_read_buf(inst.tx_fifo, read_idx, SEND_BUF_SIZE, out_len)
       IN  Bind(cb_serial_out(inst, rd.bytes),
                LAMBDA r : IF ~r.ret THEN r
                           ELSE send_pieces(r, rd.idx, block_size - out_len))

tx_fifo_send_last_block(inst) ==
  IF tx_fifo_has_block(inst)
    THEN LET hb == tx_fifo_head_block(inst)
             hdr == hb.hdr
         IN  Bind(send_pieces(inst, hb.idx, hdr.size),
                  LAMBDA r :
                    IF ~r.ret
                      THEN Ret(r, event(t1_ev_err_serial_out))
                      ELSE [r EXCEPT
                              !.tx_block_ctr = IF inst.tx_block_ctr < UINT8_MAX
                                                 THEN inst.tx_block_ctr + 1
                                                 ELSE inst.tx_block_ctr,
                              !.tmr_response_timeout = Tmr(inst.config.tm_response),
                              !.tx_prev_block_prm =
                                 [block_type |-> t1_block_i,
                                  inf_len |-> hdr.size - prologue_size - edc_size(inst),
                                  u |-> [more_data |-> hdr.more_data # 0,
                                         seq_number |-> hdr.seq_number]],
                              !.tx_last_seq_number = hdr.seq_number,
                              !.ret = event_none])
    ELSE Ret(inst, event_none)

tx_fifo_remove_last_block(inst) ==
  IF tx_fifo_has_block(inst)
    THEN LET hdr == tx_fifo_head_block(inst).hdr
         IN  [inst EXCEPT !.tx_fifo = fifo_remove(inst.tx_fifo, HDR_SIZE + hdr.size),
                          !.tx_fifo_nblock = inst.tx_fifo_nblock - 1]
    ELSE inst

t1_init(inst) ==
  LET i1 == [inst EXCEPT
               !.config = [id \in ConfigIds |-> ext_config[id].def],
               !.tx_fifo = fifo_init(inst.tx_fifo.buf, T1_TX_FIFO_SIZE)]
  IN  Ret(t1_reset(i1, TRUE), TRUE)

t1_set_config(inst, prm_id, value) ==
  IF /\ prm_id \in ConfigIds
     /\ (ext_config[prm_id].min # 0 \/ ext_config[prm_id].max # 0)
     /\ value >= ext_config[prm_id].min
     /\ value <= ext_config[prm_id].max
    THEN [inst EXCEPT !.config[prm_id] = value, !.ret = TRUE]
    ELSE Ret(inst, FALSE)

(***************************************************************************)
(* ATR                                                                     *)
(***************************************************************************)
TA_BIT == 1
TB_BIT == 2
TC_BIT == 4
TD_BIT == 8
atr_prot_t0 == 0
atr_prot_t1 == 1
atr_globals == 15
t1_atr_intf_bytes == 9
t1_atr_ta2 == 3
\* intf_size = t1_atr_ta2 - t1_atr_ta1
intf_size == 3

atr_ibyte_num(y) ==
  ((y \div 8) % 2) + ((y \div 4) % 2) + ((y \div 2) % 2) + (y % 2)

\* atr_decoded_init; hist_bytes is the offset of the first historical byte in
\* the ATR, -1 for NULL
atr_decoded_init(atr_buf, atr_len) ==
  [ atr |-> atr_buf, atr_len |-> atr_len, convention |-> "direct",
    t0_supported |-> FALSE, t1_supported |-> FALSE,
    hist_bytes |-> -1, hist_nbytes |-> 0,
    global_bytes |-> [i \in 0..(t1_atr_intf_bytes - 1) |-> -1],
    t1_bytes |-> [i \in 0..(t1_atr_intf_bytes - 1) |-> -1] ]

\* Local variables of parse_atr.  p_intf is "null" (the dummy intf_null),
\* "global" or "t1" together with the offset p_base into that array; ok
\* becomes FALSE at the "return false" inside the loop
parse_atr_init(buf, len) ==
  [ p_atr |-> atr_decoded_init(buf, len),
    p_intf |-> "null", p_base |-> 0,
    intf_idx |-> 1, global_idx |-> 0, t1_idx |-> 0,
    exp_len |-> ATR_MIN_BYTES, indicator |-> 0, checksum |-> 0,
    tck_present |-> FALSE, ok |-> TRUE ]

\* p_intf[k] = byte
intf_store(st, k, byte) ==
  IF st.p_intf = "global" THEN [st EXCEPT !.p_atr.global_bytes[st.p_base + k] = byte]
  ELSE IF st.p_intf = "t1" THEN [st EXCEPT !.p_atr.t1_bytes[st.p_base + k] = byte]
  ELSE st

\* The TD branch of the loop body
parse_atr_td(st, byte) ==
  LET ind == byte \div 16
      prot_id == byte % 16
      s0 == [st EXCEPT !.p_intf = "null", !.indicator = ind]
  IN  IF ind = 0 THEN s0
      ELSE
        LET s1 == [s0 EXCEPT !.exp_len = st.exp_len + atr_ibyte_num(ind),
                             !.intf_idx = st.intf_idx + 1,
                             !.p_atr.t0_supported =
                                IF prot_id = atr_prot_t0 THEN TRUE ELSE st.p_atr.t0_supported,
                             !.p_atr.t1_supported =
                                IF prot_id = atr_prot_t1 THEN TRUE ELSE st.p_atr.t1_supported]
            s2 == IF prot_id = atr_prot_t1 /\ s1.intf_idx > 2
                    THEN IF s1.t1_idx + intf_size <= t1_atr_intf_bytes
                           THEN [s1 EXCEPT !.p_intf = "t1", !.p_base = s1.t1_idx,
                                           !.t1_idx = s1.t1_idx + intf_size]
                           ELSE s1
                    ELSE IF prot_id = atr_globals \/ s1.intf_idx <= 2
                           THEN IF s1.global_idx + intf_size <= t1_atr_intf_bytes
                                  THEN [s1 EXCEPT !.p_intf = "global", !.p_base = s1.global_idx,
                                                  !.global_idx = s1.global_idx + intf_size]
                                  ELSE s1
                           ELSE s1
        IN  IF prot_id # atr_prot_t0 /\ ~s2.tck_present
              THEN [s2 EXCEPT !.tck_present = TRUE, !.exp_len = s2.exp_len + 1]
              ELSE s2

\* A parse_atr loop body that takes TS = 3F for a wrong initial character
parse_atr_byte_direct_only(st, byte, n) ==
          IF n = 0 THEN
            IF byte = TS_CONVENTION_INVERSE THEN [st EXCEPT !.ok = FALSE]
            ELSE IF byte # TS_CONVENTION_DIRECT THEN [st EXCEPT !.ok = FALSE]
            ELSE st
          ELSE IF n = 1 THEN
            LET ind == byte \div 16
                a == [st EXCEPT !.p_atr.hist_nbytes = byte % 16,
                                !.exp_len = st.exp_len + (byte % 16),
                                !.indicator = ind]
                b == IF ind # 0
                       THEN [a EXCEPT !.p_intf = "global", !.p_base = a.global_idx,
                                      !.global_idx = a.global_idx + intf_size,
                                      !.exp_len = a.exp_len + atr_ibyte_num(ind)]
                       ELSE a
            IN  IF BitAnd(ind, TD_BIT) = 0
                  THEN [b EXCEPT !.p_atr.t0_supported = TRUE]
                  ELSE b
          ELSE IF BitAnd(st.indicator, TA_BIT) # 0 THEN
            [intf_store(st, 0, byte) EXCEPT !.indicator = BitXor(st.indicator, TA_BIT)]
          ELSE IF BitAnd(st.indicator, TB_BIT) # 0 THEN
            [intf_store(st, 1, byte) EXCEPT !.indicator = BitXor(st.indicator, TB_BIT)]
          ELSE IF BitAnd(st.indicator, TC_BIT) # 0 THEN
            [intf_store(st, 2, byte) EXCEPT !.indicator = BitXor(st.indicator, TC_BIT)]
          ELSE IF BitAnd(st.indicator, TD_BIT) # 0 THEN
            parse_atr_td(st, byte)
          ELSE IF st.p_atr.hist_bytes = -1 THEN
            [st EXCEPT !.p_atr.hist_bytes = n]
          ELSE st

\* The if/else chain of the loop body of parse_atr for byte n
parse_atr_byte(st, byte, n) ==
          IF n = 0 THEN
            IF byte = TS_CONVENTION_INVERSE THEN [st EXCEPT !.p_atr.convention = "inverse"]
            ELSE IF byte # TS_CONVENTION_DIRECT THEN [st EXCEPT !.ok = FALSE]
            ELSE st
          ELSE IF n = 1 THEN
            LET ind == byte \div 16
                a == [st EXCEPT !.p_atr.hist_nbytes = byte % 16,
                                !.exp_len = st.exp_len + (byte % 16),
                                !.indicator = ind]
                b == IF ind # 0
                       THEN [a EXCEPT !.p_intf = "global", !.p_base = a.global_idx,
                                      !.global_idx = a.global_idx + intf_size,
                                      !.exp_len = a.exp_len + atr_ibyte_num(ind)]
                       ELSE a
            IN  IF BitAnd(ind, TD_BIT) = 0
                  THEN [b EXCEPT !.p_atr.t0_supported = TRUE]
                  ELSE b
          ELSE IF BitAnd(st.indicator, TA_BIT) # 0 THEN
            [intf_store(st, 0, byte) EXCEPT !.indicator = BitXor(st.indicator, TA_BIT)]
          ELSE IF BitAnd(st.indicator, TB_BIT) # 0 THEN
            [intf_store(st, 1, byte) EXCEPT !.indicator = BitXor(st.indicator, TB_BIT)]
          ELSE IF BitAnd(st.indicator, TC_BIT) # 0 THEN
            [intf_store(st, 2, byte) EXCEPT !.indicator = BitXor(st.indicator, TC_BIT)]
          ELSE IF BitAnd(st.indicator, TD_BIT) # 0 THEN
            parse_atr_td(st, byte)
          ELSE IF st.p_atr.hist_bytes = -1 THEN
            [st EXCEPT !.p_atr.hist_bytes = n]
          ELSE st

\* One pass of the for loop of parse_atr for byte n (0-based) of buf; the pass
\* does nothing once the loop has been left
parse_atr_step(st, buf, len, n) ==
  IF ~st.ok \/ ~(n < len /\ st.exp_len <= len /\ n < st.exp_len) THEN st
  ELSE Bind(parse_atr_byte(st, buf[n], n),
            LAMBDA s1 : IF s1.ok /\ n > 0
                          THEN [s1 EXCEPT !.checksum = BitXor(s1.checksum, buf[n])]
                          ELSE s1)

RECURSIVE parse_atr_range(_, _, _, _, _)
parse_atr_range(st, buf, len, lo, hi) ==
  IF lo > hi THEN st
  ELSE IF lo = hi THEN parse_atr_step(st, buf, len, lo)
  ELSE StrictRec(parse_atr_range(st, buf, len, lo, (lo + hi) \div 2),
                 LAMBDA s : parse_atr_range(s, buf, len, (lo + hi) \div 2 + 1, hi))

\* parse_atr(buf, len, p_atr): buf is the receive buffer (0-based array)
parse_atr(buf, len) ==
  Bind(parse_atr_range(parse_atr_init(buf, len), buf, len, 0, len - 1),
       LAMBDA st :
         [ok |-> st.ok /\ st.exp_len <= len /\ (~st.tck_present \/ st.checksum = 0),
          atr |-> st.p_atr])

\* A handle_atr that takes every card for a T=1 card
handle_atr_any_card(inst, p_atr) == Ret(inst, [ok |-> TRUE, needs_ppsx |-> FALSE])

\* handle_atr(inst, p_atr, &needs_ppsx); the result is in ret.ok and
\* ret.needs_ppsx
handle_atr(inst, p_atr) ==
  IF p_atr.t1_supported
    THEN LET i1 == IF p_atr.t1_bytes[0] # -1
                     THEN [inst EXCEPT !.config.ifsc = p_atr.t1_bytes[0]]
                     ELSE inst
             i2 == IF p_atr.t1_bytes[2] # -1
                     THEN [i1 EXCEPT !.config.use_crc = p_atr.t1_bytes[2] % 2]
                     ELSE i1
             negotiable == p_atr.t1_bytes[t1_atr_ta2] = -1
             auto_pps == BitAnd(i2.config.dw_fetures, CCID_CLASS_AUTO_PPS_CUR) # 0
         IN  Ret(i2, [ok |-> TRUE, needs_ppsx |-> negotiable /\ ~auto_pps])
    ELSE Ret(inst, [ok |-> FALSE, needs_ppsx |-> FALSE])

\* The raw ATR an event refers to: bytes 0..atr_len-1 of the receive buffer
atr_raw(p_atr) == [i \in 1..p_atr.atr_len |-> p_atr.atr[i - 1]]

(***************************************************************************)
(* Bad blocks, events, timers                                              *)
(***************************************************************************)
\* A handle_bad_block that resynchronises whatever tx_block_ctr is
handle_bad_block_no_first_block(inst, block_type, ack_code) ==
  LET i0 == [inst EXCEPT !.tmr_response_timeout = Tmr(0), !.rx_bad_block = TRUE]
  IN  IF i0.fsm_state # t1_st_resync
        THEN IF i0.tx_attempts + 1 < DELIVERY_ATTEMPTS
               THEN send_rblock([i0 EXCEPT !.tx_attempts = i0.tx_attempts + 1],
                                ack_code, i0.rx_seq_number)
             ELSE send_sblock([i0 EXCEPT !.tx_attempts = 0, !.fsm_state = t1_st_resync],
                              t1_sblock_cmd_resynch, FALSE, -1)
        ELSE IF i0.tx_attempts + 1 < RESYNC_ATTEMPTS
               THEN send_sblock([i0 EXCEPT !.tx_attempts = i0.tx_attempts + 1],
                                t1_sblock_cmd_resynch, FALSE, -1)
               ELSE Ret(i0, event(t1_ev_err_comm_failure))

\* A handle_bad_block that asks for the block again without counting
handle_bad_block_keeps_asking(inst, block_type, ack_code) ==
  LET i0 == [inst EXCEPT !.tmr_response_timeout = Tmr(0), !.rx_bad_block = TRUE]
  IN  send_rblock(i0, ack_code, i0.rx_seq_number)

\* A handle_bad_block that sends S(RESYNCH request) once more
handle_bad_block_resync_once_more(inst, block_type, ack_code) ==
  LET i0 == [inst EXCEPT !.tmr_response_timeout = Tmr(0), !.rx_bad_block = TRUE]
  IN  IF i0.fsm_state # t1_st_resync
        THEN IF i0.tx_attempts + 1 < DELIVERY_ATTEMPTS
               THEN send_rblock([i0 EXCEPT !.tx_attempts = i0.tx_attempts + 1],
                                ack_code, i0.rx_seq_number)
             ELSE IF i0.tx_block_ctr <= 1
               THEN Ret(i0, event(t1_ev_err_comm_failure))
             ELSE send_sblock([i0 EXCEPT !.tx_attempts = 0, !.fsm_state = t1_st_resync],
                              t1_sblock_cmd_resynch, FALSE, -1)
        ELSE IF i0.tx_attempts + 1 <= RESYNC_ATTEMPTS
               THEN send_sblock([i0 EXCEPT !.tx_attempts = i0.tx_attempts + 1],
                                t1_sblock_cmd_resynch, FALSE, -1)
               ELSE Ret(i0, event(t1_ev_err_comm_failure))

handle_bad_block(inst, block_type, ack_code) ==
  LET i0 == [inst EXCEPT !.tmr_response_timeout = Tmr(0), !.rx_bad_block = TRUE]
  IN  IF i0.fsm_state # t1_st_resync
        THEN IF i0.tx_attempts + 1 < DELIVERY_ATTEMPTS
               THEN send_rblock([i0 EXCEPT !.tx_attempts = i0.tx_attempts + 1],
                                ack_code, i0.rx_seq_number)
             ELSE IF i0.tx_block_ctr <= 1
               THEN Ret(i0, event(t1_ev_err_comm_failure))
             ELSE send_sblock([i0 EXCEPT !.tx_attempts = 0, !.fsm_state = t1_st_resync],
                              t1_sblock_cmd_resynch, FALSE, -1)
        ELSE IF i0.tx_attempts + 1 < RESYNC_ATTEMPTS
               THEN send_sblock([i0 EXCEPT !.tx_attempts = i0.tx_attempts + 1],
                                t1_sblock_cmd_resynch, FALSE, -1)
               ELSE Ret(i0, event(t1_ev_err_comm_failure))

\* inst->cb_handle_event(code, prm, p_user_prm): the observer records the
\* code, the payload the parameter points to and the FSM state it finds
cb_handle_event(inst, ev) ==
  LET payload == IF ev.prm = PrmApdu
                   THEN [i \in 1..inst.rx_apdu_len |-> inst.rx_apdu[i - 1]]
                   ELSE ev.prm
  IN  [inst EXCEPT !.evs = Append(inst.evs,
         [code |-> ev.code, prm |-> payload, state |-> inst.fsm_state])]

\* handle_event with the callback invoked before the FSM is switched to error
handle_event_cb_first(inst, ev) ==
  IF ev.code # t1_ev_none
    THEN IF is_error(ev)
           THEN [t1_reset(cb_handle_event(inst, ev), FALSE) EXCEPT !.fsm_state = t1_st_error]
           ELSE cb_handle_event(inst, ev)
    ELSE inst

handle_event(inst, ev) ==
  IF ev.code # t1_ev_none
    THEN IF is_error(ev)
           THEN cb_handle_event([t1_reset(inst, FALSE) EXCEPT !.fsm_state = t1_st_error], ev)
           ELSE cb_handle_event(inst, ev)
    ELSE inst

RECURSIVE handle_events_from(_, _)
handle_events_from(inst, i) ==
  IF i > Len(inst.elist) THEN inst
  ELSE handle_events_from(handle_event(inst, inst.elist[i]), i + 1)

handle_events(inst) == handle_events_from(inst, 1)

\* timer_elapsed without the protection of the first call
timer_elapsed_at_once(timer, elapsed_ms) ==
  IF TmrNonZero(timer)
    THEN LET time == timer.lo - Min(elapsed_ms, timer.lo)
         IN  IF time = 0
               THEN [timer |-> Tmr(0), elapsed |-> TRUE]
               ELSE [timer |-> [hi |-> TRUE, lo |-> time], elapsed |-> FALSE]
    ELSE [timer |-> timer, elapsed |-> FALSE]

\* timer_elapsed(&timer, elapsed_ms): the timer afterwards and the result
timer_elapsed(timer, elapsed_ms) ==
  IF TmrNonZero(timer)
    THEN LET time == timer.lo - Min(elapsed_ms, timer.lo)
         IN  IF time = 0 /\ timer.hi
               THEN [timer |-> Tmr(0), elapsed |-> TRUE]
               ELSE [timer |-> [hi |-> TRUE, lo |-> time], elapsed |-> FALSE]
    ELSE [timer |-> timer, elapsed |-> FALSE]

(***************************************************************************)
(* PPS and IFSD requests                                                   *)
(***************************************************************************)
\* send_pps_request; the request buffer has pps_size bytes, of which the code
\* fills 3 (serial) or 4 (USB reader): the configurations used here have
\* pps_size = 3 without and pps_size = 4 with is_usb_reader
send_pps_request(inst) ==
  LET pps0 == BitOr(atr_prot_t1, 16)
      buf == IF inst.config.is_usb_reader = 0
               THEN << PPSS, atr_prot_t1, BitXor(PPSS, atr_prot_t1) >>
               ELSE << PPSS, pps0, inst.config.ta1_value % 256,
                       BitXor(BitXor(PPSS, pps0), inst.config.ta1_value % 256) >>
  IN  Bind(cb_serial_out(inst, buf),
           LAMBDA r :
             IF ~r.ret
               THEN Ret(r, event(t1_ev_err_serial_out))
               ELSE Ret(reset_rx([r EXCEPT !.tmr_response_timeout =
                                               Tmr(inst.config.tm_response)]),
                        event_none))

send_ifsd_request(inst) ==
  Bind(send_sblock(inst, t1_sblock_cmd_ifs, FALSE, inst.config.ifsd),
       LAMBDA r : IF ~is_error(r.ret)
                    THEN [r EXCEPT !.tmr_response_timeout = Tmr(inst.config.tm_response)]
                    ELSE r)

\* A send_block_if_available that leaves the FSM state alone when the FIFO is
\* empty
send_block_if_available_or_stay(inst) ==
  IF inst.fsm_state # t1_st_error
    THEN IF tx_fifo_has_block(inst)
           THEN tx_fifo_send_last_block([inst EXCEPT !.fsm_state = t1_st_wait_response])
           ELSE Ret(inst, event_none)
    ELSE Ret(inst, event_none)

\* send_block_if_available; the function returns no value when the FSM is in
\* the error state, which no caller can reach (t1_serial_in returns early)
send_block_if_available(inst) ==
  IF inst.fsm_state # t1_st_error
    THEN IF tx_fifo_has_block(inst)
           THEN tx_fifo_send_last_block([inst EXCEPT !.fsm_state = t1_st_wait_response])
           ELSE Ret([inst EXCEPT !.fsm_state = t1_st_idle], event_none)
    ELSE Ret(inst, event_none)

\* check_pps_response: in "0U == a ^ b ^ c" the comparison binds tighter than
\* the XOR, so the last condition is ((0 == a) ^ b ^ c) != 0
check_pps_response(buf, size) ==
  /\ size = 3
  /\ buf[0] = PPSS
  /\ buf[1] = atr_prot_t1
  /\ BitXor(BitXor(IF buf[0] = 0 THEN 1 ELSE 0, buf[1]), buf[2]) # 0

\* check_usb_pps_response: "atr_prot_t1 | 0x10 == buf[1]" is
\* atr_prot_t1 | (0x10 == buf[1]), never zero; the checksum condition is
\* ((0 == buf[0]) ^ buf[2] ^ buf[1] ^ buf[3]) != 0
check_usb_pps_response(inst, buf, size) ==
  /\ size = 4
  /\ buf[0] = PPSS
  /\ BitOr(atr_prot_t1, IF buf[1] = 16 THEN 1 ELSE 0) # 0
  /\ inst.config.ta1_value = buf[2]
  /\ BitXor(BitXor(BitXor(IF buf[0] = 0 THEN 1 ELSE 0, buf[2]), buf[1]), buf[3]) # 0

\* rx_buf[rx_buf_idx++] = b for the first n bytes of src
rx_store(inst, src, n) ==
  [inst EXCEPT
     !.rx_buf = [i \in DOMAIN inst.rx_buf |->
                   IF i >= inst.rx_buf_idx /\ i < inst.rx_buf_idx + n
                     THEN src[i - inst.rx_buf_idx + 1] ELSE inst.rx_buf[i]],
     !.rx_buf_idx = inst.rx_buf_idx + n]

handle_pps_data(inst, buf) ==
  IF inst.config.pps_size <= T1_RX_BUF_SIZE /\ inst.rx_buf_idx < T1_RX_BUF_SIZE
    THEN LET room == IF inst.rx_buf_idx < inst.config.pps_size
                       THEN inst.config.pps_size - inst.rx_buf_idx ELSE 0
             i1 == rx_store(inst, buf, Min(room, Len(buf)))
         IN  IF i1.rx_buf_idx = i1.config.pps_size
               THEN LET i2 == [i1 EXCEPT !.tmr_response_timeout = Tmr(50)]
                        res == IF i2.rx_buf_idx = 3
                                 THEN check_pps_response(i2.rx_buf, i2.rx_buf_idx)
                                 ELSE check_usb_pps_response(i2, i2.rx_buf, i2.rx_buf_idx)
                    IN  IF res
                          THEN [event_add(reset_rx(i2), event(t1_ev_pps_exchange_done))
                                  EXCEPT !.fsm_state = t1_st_ifsd_setup_prepare]
                          ELSE event_add(i2, event(t1_ev_pps_failed))
               ELSE i1
    ELSE event_add(inst, event(t1_ev_err_internal))

(***************************************************************************)
(* Receive side                                                            *)
(***************************************************************************)
PCB_MARKER_MASK == 192
RB_ACK_MASK == 15
SB_CMD_MASK == 31

handle_atr_data(inst, buf) ==
  IF inst.rx_buf_idx + Len(buf) > T1_RX_BUF_SIZE
    THEN Ret(inst, event(t1_ev_err_bad_atr))
    ELSE Ret([rx_store(inst, buf, Len(buf)) EXCEPT !.tmr_atr_timeout = Tmr(0)], event_none)

\* save_apdu_data that stores every INF at the start of the APDU buffer
save_apdu_data_at_start(inst, inf) ==
  IF Len(inf) <= T1_MAX_APDU_SIZE
    THEN [inst EXCEPT
            !.rx_new_apdu = FALSE,
            !.rx_apdu = [i \in DOMAIN inst.rx_apdu |->
                           IF i < Len(inf) THEN inf[i + 1] ELSE inst.rx_apdu[i]],
            !.rx_apdu_len = Len(inf),
            !.ret = TRUE]
    ELSE Ret([inst EXCEPT !.rx_new_apdu = FALSE], FALSE)

\* save_apdu_data; sizeof(inst->rx_apdu) is T1_MAX_APDU_SIZE
save_apdu_data(inst, inf) ==
  LET i1 == IF inst.rx_new_apdu
              THEN [inst EXCEPT !.rx_new_apdu = FALSE, !.rx_apdu_len = 0]
              ELSE inst
      len == i1.rx_apdu_len
  IN  IF len + Len(inf) <= T1_MAX_APDU_SIZE
        THEN [i1 EXCEPT
                !.rx_apdu = [i \in DOMAIN i1.rx_apdu |->
                               IF i >= len /\ i < len + Len(inf)
                                 THEN inf[i - len + 1] ELSE i1.rx_apdu[i]],
                !.rx_apdu_len = len + Len(inf),
                !.ret = TRUE]
        ELSE Ret(i1, FALSE)

\* handle_iblock that does not compare N(S) with rx_seq_number
handle_iblock_any_seq(inst, seq_number, more_data, inf) ==
  IF inst.fsm_state = t1_st_wait_response
    THEN Bind(save_apdu_data([inst EXCEPT !.tmr_response_timeout = Tmr(0),
                                          !.rx_seq_number = BitXor(inst.rx_seq_number, 1)],
                             inf),
              LAMBDA i1 :
                IF i1.ret
                  THEN IF more_data
                         THEN send_rblock(i1, t1_rblock_ack_ok, i1.rx_seq_number)
                         ELSE Bind(send_block_if_available(
                                     tx_fifo_remove_last_block([i1 EXCEPT !.rx_new_apdu = TRUE])),
                                   LAMBDA i2 :
                                     IF is_error(i2.ret) THEN i2
                                     ELSE Ret(i2, event_ext(t1_ev_apdu_received, PrmApdu)))
                  ELSE Ret(i1, event(t1_ev_err_oversized_apdu)))
    ELSE IF inst.fsm_state = t1_st_wait_response
      THEN handle_bad_block([inst EXCEPT !.tmr_response_timeout = Tmr(0)],
                            t1_block_i, t1_rblock_ack_err_other)
      ELSE handle_bad_block(inst, t1_block_i, t1_rblock_ack_err_other)

handle_iblock(inst, seq_number, more_data, inf) ==
  IF inst.fsm_state = t1_st_wait_response /\ seq_number = inst.rx_seq_number
    THEN Bind(save_apdu_data([inst EXCEPT !.tmr_response_timeout = Tmr(0),
                                          !.rx_seq_number = BitXor(inst.rx_seq_number, 1)],
                             inf),
              LAMBDA i1 :
                IF i1.ret
                  THEN IF more_data
                         THEN send_rblock(i1, t1_rblock_ack_ok, i1.rx_seq_number)
                         ELSE Bind(send_block_if_available(
                                     tx_fifo_remove_last_block([i1 EXCEPT !.rx_new_apdu = TRUE])),
                                   LAMBDA i2 :
                                     IF is_error(i2.ret) THEN i2
                                     ELSE Ret(i2, event_ext(t1_ev_apdu_received, PrmApdu)))
                  ELSE Ret(i1, event(t1_ev_err_oversized_apdu)))
    ELSE IF inst.fsm_state = t1_st_wait_response
      THEN handle_bad_block([inst EXCEPT !.tmr_response_timeout = Tmr(0)],
                            t1_block_i, t1_rblock_ack_err_other)
      ELSE handle_bad_block(inst, t1_block_i, t1_rblock_ack_err_other)

resend_prev_block(inst) ==
  LET p_prev == inst.tx_prev_block_prm
  IN  IF p_prev.block_type = t1_block_i
        THEN IF tx_fifo_has_block(inst) THEN tx_fifo_send_last_block(inst)
             ELSE Ret(inst, event_none)
      ELSE IF p_prev.block_type = t1_block_r
        THEN send_rblock(inst, p_prev.u.ack_code, p_prev.u.seq_number)
      ELSE IF p_prev.block_type = t1_block_s
        THEN send_sblock(inst, p_prev.u.command, p_prev.u.is_response, p_prev.u.inf_byte)
      ELSE Ret(inst, event_none)

\* handle_rblock that allows one delivery attempt more
handle_rblock_one_more(inst, seq_number, ack_code) ==
  LET p_prev == inst.tx_prev_block_prm
  IN  IF inst.fsm_state = t1_st_wait_response /\ ack_code = t1_rblock_ack_ok
           /\ p_prev.block_type = t1_block_i /\ p_prev.u.more_data
           /\ seq_number # inst.tx_last_seq_number
        THEN send_block_if_available(tx_fifo_remove_last_block(inst))
      ELSE IF inst.fsm_state = t1_st_wait_response
                /\ ack_code \in {t1_rblock_ack_err_edc, t1_rblock_ack_err_other}
        THEN LET i0 == [inst EXCEPT !.rx_bad_block = TRUE]
             IN  IF i0.tx_attempts + 1 <= DELIVERY_ATTEMPTS
                   THEN resend_prev_block([i0 EXCEPT !.tx_attempts = i0.tx_attempts + 1])
                   ELSE send_sblock([i0 EXCEPT !.tx_attempts = 0, !.fsm_state = t1_st_resync],
                                    t1_sblock_cmd_resynch, FALSE, -1)
      ELSE handle_bad_block(inst, t1_block_r, t1_rblock_ack_err_other)

handle_rblock(inst, seq_number, ack_code) ==
  LET p_prev == inst.tx_prev_block_prm
  IN  IF inst.fsm_state = t1_st_wait_response /\ ack_code = t1_rblock_ack_ok
           /\ p_prev.block_type = t1_block_i /\ p_prev.u.more_data
           /\ seq_number # inst.tx_last_seq_number
        THEN send_block_if_available(tx_fifo_remove_last_block(inst))
      ELSE IF inst.fsm_state = t1_st_wait_response
                /\ ack_code \in {t1_rblock_ack_err_edc, t1_rblock_ack_err_other}
        THEN LET i0 == [inst EXCEPT !.rx_bad_block = TRUE]
             IN  IF i0.tx_attempts + 1 < DELIVERY_ATTEMPTS
                   THEN resend_prev_block([i0 EXCEPT !.tx_attempts = i0.tx_attempts + 1])
                   ELSE send_sblock([i0 EXCEPT !.tx_attempts = 0, !.fsm_state = t1_st_resync],
                                    t1_sblock_cmd_resynch, FALSE, -1)
      ELSE handle_bad_block(inst, t1_block_r, t1_rblock_ack_err_other)

\* tmr_response_timeout *= mult in 32 bits, then the clamp; the product of the
\* low 31 bits stays below 2^31 for every configurable timeout, so only bit 31
\* can be lost by the multiplication
\* An increase_response_timeout without the upper limit
increase_response_timeout_unlimited(inst, mult) ==
  IF mult # 0
    THEN LET t == inst.tmr_response_timeout
         IN  [inst EXCEPT !.tmr_response_timeout = [hi |-> FALSE, lo |-> t.lo * mult]]
    ELSE inst

increase_response_timeout(inst, mult) ==
  IF mult # 0
    THEN LET t == inst.tmr_response_timeout
             hi == t.hi /\ (mult % 2 = 1)
             lo == t.lo * mult
         IN  IF hi \/ lo > inst.config.tm_response_max
               THEN [inst EXCEPT !.tmr_response_timeout = Tmr(inst.config.tm_response_max)]
               ELSE [inst EXCEPT !.tmr_response_timeout = [hi |-> FALSE, lo |-> lo]]
    ELSE inst

\* A handle_sblock that grants every S(IFS request), with the value brought
\* into [IFS_MIN, IFS_MAX]
handle_sblock_ifs_clamped(inst, command, is_response, inf_byte) ==
  IF inst.fsm_state # t1_st_resync
    THEN IF command = t1_sblock_cmd_ifs /\ is_response
           THEN Bind(send_block_if_available([inst EXCEPT !.tmr_response_timeout = Tmr(0)]),
                     LAMBDA r : IF is_error(r.ret) THEN r ELSE Ret(r, event(t1_ev_connect)))
         ELSE IF command = t1_sblock_cmd_ifs /\ inf_byte >= 0
           THEN send_sblock([inst EXCEPT !.config.ifsc =
                                           IF inf_byte < IFS_MIN THEN IFS_MIN
                                           ELSE IF inf_byte > IFS_MAX THEN IFS_MAX
                                           ELSE inf_byte],
                            t1_sblock_cmd_ifs, TRUE, -1)
         ELSE IF command = t1_sblock_cmd_abort
           THEN Ret(inst, event(t1_ev_err_sc_abort))
         ELSE IF command = t1_sblock_cmd_wtx /\ ~is_response /\ inf_byte > 0
           THEN Bind(send_sblock(inst, t1_sblock_cmd_wtx, TRUE, -1),
                     LAMBDA r : Ret(increase_response_timeout(
                                      r, IF inf_byte < 2 THEN 2 ELSE inf_byte), r.ret))
         ELSE handle_bad_block(inst, t1_block_s, t1_rblock_ack_err_other)
    ELSE IF command = t1_sblock_cmd_resynch /\ is_response
           THEN send_block_if_available(
                  [inst EXCEPT !.tx_seq_number = 0, !.tx_last_seq_number = 0,
                               !.rx_seq_number = 0,
                               !.config.ifsc = ext_config.ifsc.def,
                               !.tx_prev_block_prm.block_type = t1_block_unkn])
           ELSE handle_bad_block(inst, t1_block_s, t1_rblock_ack_err_other)

\* A handle_sblock that stops the response timer on S(RESYNCH response)
handle_sblock_resynch_stops_timer(inst, command, is_response, inf_byte) ==
  IF inst.fsm_state # t1_st_resync
    THEN IF command = t1_sblock_cmd_ifs /\ is_response
           THEN Bind(send_block_if_available([inst EXCEPT !.tmr_response_timeout = Tmr(0)]),
                     LAMBDA r : IF is_error(r.ret) THEN r ELSE Ret(r, event(t1_ev_connect)))
         ELSE IF command = t1_sblock_cmd_ifs /\ inf_byte >= IFS_MIN /\ inf_byte <= IFS_MAX
           THEN send_sblock([inst EXCEPT !.config.ifsc = inf_byte], t1_sblock_cmd_ifs, TRUE, -1)
         ELSE IF command = t1_sblock_cmd_abort
           THEN Ret(inst, event(t1_ev_err_sc_abort))
         ELSE IF command = t1_sblock_cmd_wtx /\ ~is_response /\ inf_byte > 0
           THEN Bind(send_sblock(inst, t1_sblock_cmd_wtx, TRUE, -1),
                     LAMBDA r : Ret(increase_response_timeout(
                                      r, IF inf_byte < 2 THEN 2 ELSE inf_byte), r.ret))
         ELSE handle_bad_block(inst, t1_block_s, t1_rblock_ack_err_other)
    ELSE IF command = t1_sblock_cmd_resynch /\ is_response
           THEN send_block_if_available(
                  [inst EXCEPT !.tx_seq_number = 0, !.tx_last_seq_number = 0,
                               !.rx_seq_number = 0,
                               !.config.ifsc = ext_config.ifsc.def,
                               !.tx_prev_block_prm.block_type = t1_block_unkn,
                               !.tmr_response_timeout = Tmr(0)])
           ELSE handle_bad_block(inst, t1_block_s, t1_rblock_ack_err_other)

handle_sblock(inst, command, is_response, inf_byte) ==
  IF inst.fsm_state # t1_st_resync
    THEN IF command = t1_sblock_cmd_ifs /\ is_response
           THEN Bind(send_block_if_available([inst EXCEPT !.tmr_response_timeout = Tmr(0)]),
                     LAMBDA r : IF is_error(r.ret) THEN r ELSE Ret(r, event(t1_ev_connect)))
         ELSE IF command = t1_sblock_cmd_ifs /\ inf_byte >= IFS_MIN /\ inf_byte <= IFS_MAX
           THEN send_sblock([inst EXCEPT !.config.ifsc = inf_byte], t1_sblock_cmd_ifs, TRUE, -1)
         ELSE IF command = t1_sblock_cmd_abort
           THEN Ret(inst, event(t1_ev_err_sc_abort))
         ELSE IF command = t1_sblock_cmd_wtx /\ ~is_response /\ inf_byte > 0
           THEN Bind(send_sblock(inst, t1_sblock_cmd_wtx, TRUE, -1),
                     LAMBDA r : Ret(increase_response_timeout(
                                      r, IF inf_byte < 2 THEN 2 ELSE inf_byte), r.ret))
         ELSE handle_bad_block(inst, t1_block_s, t1_rblock_ack_err_other)
    ELSE IF command = t1_sblock_cmd_resynch /\ is_response
           THEN send_block_if_available(
                  [inst EXCEPT !.tx_seq_number = 0, !.tx_last_seq_number = 0,
                               !.rx_seq_number = 0,
                               !.config.ifsc = ext_config.ifsc.def,
                               !.tx_prev_block_prm.block_type = t1_block_unkn])
           ELSE handle_bad_block(inst, t1_block_s, t1_rblock_ack_err_other)

handle_block(inst, p_prm, inf) ==
  IF p_prm.block_type = t1_block_i
    THEN handle_iblock(inst, p_prm.u.seq_number, p_prm.u.more_data, inf)
  ELSE IF p_prm.block_type = t1_block_r
    THEN IF p_prm.inf_len = 0
           THEN handle_rblock(inst, p_prm.u.seq_number, p_prm.u.ack_code)
           ELSE handle_bad_block(inst, t1_block_r, t1_rblock_ack_err_other)
  ELSE IF p_prm.block_type = t1_block_s
    THEN handle_sblock(inst, p_prm.u.command, p_prm.u.is_response, p_prm.u.inf_byte)
  ELSE handle_bad_block(inst, t1_block_unkn, t1_rblock_ack_err_other)

decode_pcb(pcb) ==
  IF BitAnd(pcb, PCB_MARKER_MASK) = RB_MARKER
    THEN [block_type |-> t1_block_r, inf_len |-> 0,
          u |-> [seq_number |-> IF BitAnd(pcb, RB_NS_BIT) # 0 THEN 1 ELSE 0,
                 ack_code |-> BitAnd(pcb, RB_ACK_MASK)]]
  ELSE IF BitAnd(pcb, PCB_MARKER_MASK) = SB_MARKER
    THEN [block_type |-> t1_block_s, inf_len |-> 0,
          u |-> [is_response |-> BitAnd(pcb, SB_RESP_BIT) # 0,
                 command |-> BitAnd(pcb, SB_CMD_MASK),
                 inf_byte |-> -1]]
  ELSE [block_type |-> t1_block_i, inf_len |-> 0,
        u |-> [more_data |-> BitAnd(pcb, IB_M_BIT) # 0,
               seq_number |-> IF BitAnd(pcb, IB_NS_BIT) # 0 THEN 1 ELSE 0]]

\* A check_rx_block_edc that compares the first byte of the code only
check_rx_block_edc_first_byte(inst) ==
  IF inst.rx_buf_idx >= prologue_size + edc_size(inst)
    THEN LET checked_size == inst.rx_buf_idx - edc_size(inst)
             edc_buf == calc_edc(inst, [i \in 1..checked_size |-> inst.rx_buf[i - 1]])
         IN  edc_buf[1] = inst.rx_buf[checked_size]
    ELSE FALSE

check_rx_block_edc(inst) ==
  IF inst.rx_buf_idx >= prologue_size + edc_size(inst)
    THEN LET checked_size == inst.rx_buf_idx - edc_size(inst)
             edc_buf == calc_edc(inst, [i \in 1..checked_size |-> inst.rx_buf[i - 1]])
         IN  /\ Len(edc_buf) # 0
             /\ \A i \in 1..Len(edc_buf) : edc_buf[i] = inst.rx_buf[checked_size + i - 1]
    ELSE FALSE


\* "ev = f(inst); reset_rx(inst);" where f left its result in r.ret
then_reset_rx(r) == Ret(reset_rx(r), r.ret)

\* A block with a valid EDC has arrived: the t1_rxs_edc case of handle_t1_data
\* from "Fill single INF byte for S-block" on
handle_rx_block(inst, prm) ==
  Bind(handle_block([inst EXCEPT !.rx_block_prm = prm, !.rx_bad_block = FALSE], prm,
                    [k \in 1..prm.inf_len |-> inst.rx_buf[prologue_size + k - 1]]),
       LAMBDA r : IF ~r.rx_bad_block /\ r.fsm_state # t1_st_resync
                    THEN [r EXCEPT !.tx_attempts = 0] ELSE r)

\* rx_len_byte that takes every LEN byte above 0 as the length of INF
rx_len_byte_no_limit(inst, byte) ==
  IF byte = 0
    THEN [inst EXCEPT !.rx_state = t1_rxs_edc, !.rx_expected_bytes = edc_size(inst)]
    ELSE [inst EXCEPT !.rx_block_prm.inf_len = byte,
                      !.rx_expected_bytes = byte,
                      !.rx_state = t1_rxs_inf]

\* The t1_rxs_len case of handle_t1_data
rx_len_byte(inst, byte) ==
  IF byte = 0
    THEN [inst EXCEPT !.rx_state = t1_rxs_edc, !.rx_expected_bytes = edc_size(inst)]
  ELSE IF byte <= T1_MAX_LEN_VALUE
    THEN [inst EXCEPT !.rx_block_prm.inf_len = byte,
                      !.rx_expected_bytes = byte,
                      !.rx_state = t1_rxs_inf]
  ELSE then_reset_rx(handle_bad_block(inst, t1_block_unkn, t1_rblock_ack_err_other))

\* The switch of handle_t1_data for one stored byte; inst.ret is the local "ev"
handle_t1_byte(inst, byte) ==
  IF inst.rx_state = t1_rxs_skip THEN
    LET i1 == IF inst.rx_expected_bytes < 0
                THEN [inst EXCEPT !.rx_expected_bytes = inst.config.rx_skip_bytes]
                ELSE inst
    IN  IF i1.rx_expected_bytes # 0 /\ i1.rx_buf_idx # 0
          THEN [i1 EXCEPT !.rx_buf_idx = i1.rx_buf_idx - 1,
                          !.rx_expected_bytes = i1.rx_expected_bytes - 1]
          ELSE [i1 EXCEPT !.rx_state = t1_rxs_pcb]
  ELSE IF inst.rx_state = t1_rxs_nad THEN
    [inst EXCEPT !.rx_state = t1_rxs_pcb]
  ELSE IF inst.rx_state = t1_rxs_pcb THEN
    [inst EXCEPT !.rx_block_prm = decode_pcb(byte), !.rx_state = t1_rxs_len]
  ELSE IF inst.rx_state = t1_rxs_len THEN
    rx_len_byte(inst, byte)
  ELSE IF inst.rx_state = t1_rxs_inf THEN
    IF inst.rx_expected_bytes - 1 = 0
      THEN [inst EXCEPT !.rx_state = t1_rxs_edc, !.rx_expected_bytes = edc_size(inst)]
      ELSE [inst EXCEPT !.rx_expected_bytes = inst.rx_expected_bytes - 1]
  ELSE \* t1_rxs_edc
    IF inst.rx_expected_bytes - 1 = 0
      THEN LET i0 == [inst EXCEPT !.rx_expected_bytes = 0]
               prm0 == inst.rx_block_prm
           IN  IF check_rx_block_edc(i0)
                 THEN then_reset_rx(handle_rx_block(i0,
                        IF prm0.block_type = t1_block_s /\ prm0.inf_len # 0
                          THEN [prm0 EXCEPT !.u.inf_byte = inst.rx_buf[prologue_size]]
                          ELSE prm0))
                 ELSE then_reset_rx(handle_bad_block(i0, t1_block_unkn, t1_rblock_ack_err_edc))
      ELSE [inst EXCEPT !.rx_expected_bytes = inst.rx_expected_bytes - 1]

\* One pass of the for loop of handle_t1_data; st.done is set by the return
\* inside the loop
handle_t1_step(st, byte) ==
  IF st.done THEN st
  ELSE IF st.inst.rx_buf_idx < T1_RX_BUF_SIZE
    THEN [st EXCEPT !.inst = handle_t1_byte(rx_store(st.inst, << byte >>, 1), byte)]
    ELSE [inst |-> then_reset_rx(handle_bad_block(st.inst, t1_block_unkn,
                                                  t1_rblock_ack_err_other)),
          done |-> TRUE]

RECURSIVE handle_t1_range(_, _, _, _)
handle_t1_range(st, buf, lo, hi) ==
  IF lo > hi THEN st
  ELSE IF lo = hi THEN handle_t1_step(st, buf[lo])
  ELSE StrictRec(handle_t1_range(st, buf, lo, (lo + hi) \div 2),
                 LAMBDA s : handle_t1_range(s, buf, (lo + hi) \div 2 + 1, hi))

handle_t1_data(inst, buf) ==
  handle_t1_range([inst |-> Ret(inst, event_none), done |-> FALSE], buf, 1, Len(buf)).inst

(***************************************************************************)
(* API                                                                     *)
(***************************************************************************)
\* t1_timer_task, interbyte timeout in t1_st_wait_atr after handle_atr: h is
\* the instance with the result of handle_atr in h.ret, atr the raw ATR
timer_atr_handled(h, atr) ==
  IF h.ret.ok
    THEN IF h.ret.needs_ppsx
           THEN [add_ret(send_pps_request(event_add(h, event_ext(t1_ev_atr_received, atr))))
                   EXCEPT !.fsm_state = t1_st_pps_exchange]
           ELSE [event_add(event_add(h, event_ext(t1_ev_atr_received, atr)),
                           event(t1_ev_pps_exchange_done))
                   EXCEPT !.fsm_state = t1_st_ifsd_setup_prepare]
    ELSE event_add(h, event_ext(t1_ev_err_incompatible, atr))

\* t1_timer_task, interbyte timeout in t1_st_wait_atr: p is the result of
\* parse_atr
timer_atr_parsed(inst, p) ==
  IF p.ok
    THEN timer_atr_handled(handle_atr([inst EXCEPT !.config.ta1_value = p.atr.atr[2]], p.atr),
                           atr_raw(p.atr))
    ELSE event_add(inst, event(t1_ev_err_bad_atr))

\* The interbyte-timer branch of t1_timer_task
timer_interbyte_expired(inst) ==
  reset_rx(
    IF inst.fsm_state = t1_st_wait_atr THEN
      timer_atr_parsed(inst, parse_atr(inst.rx_buf, inst.rx_buf_idx))
    ELSE IF inst.fsm_state = t1_st_pps_exchange THEN
      event_add(inst, event(t1_ev_pps_failed))
    ELSE IF inst.fsm_state = t1_st_ifsd_setup THEN
      event_add(inst, event(t1_ev_err_comm_failure))
    ELSE IF inst.fsm_state = t1_st_wait_response THEN
      add_ret(handle_bad_block(inst, t1_block_unkn, t1_rblock_ack_err_other))
    ELSE inst)

\* The response-timer branch of t1_timer_task
timer_response_expired(inst) ==
  reset_rx(
    IF inst.fsm_state = t1_st_pps_exchange THEN
      event_add(inst, event(t1_ev_pps_failed))
    ELSE IF inst.fsm_state = t1_st_ifsd_setup THEN
      event_add(inst, event(t1_ev_err_comm_failure))
    ELSE add_ret(handle_bad_block(inst, t1_block_unkn, t1_rblock_ack_err_other)))

\* A t1_st_ifsd_setup_prepare step that enters ifsd_setup without a request
timer_ifsd_prepare_silent(inst) ==
  IF inst.fsm_state = t1_st_ifsd_setup_prepare
    THEN [inst EXCEPT !.fsm_state = t1_st_ifsd_setup]
    ELSE inst

\* t1_timer_task: the t1_st_ifsd_setup_prepare step
timer_ifsd_prepare(inst) ==
  IF inst.fsm_state = t1_st_ifsd_setup_prepare
    THEN [add_ret(send_ifsd_request(inst)) EXCEPT !.fsm_state = t1_st_ifsd_setup]
    ELSE inst

\* t1_timer_task: if(timer_elapsed(&inst->tmr_interbyte_timeout, ...)) {...}
timer_check_interbyte(inst, elapsed_ms) ==
  LET t == timer_elapsed(inst.tmr_interbyte_timeout, elapsed_ms)
  IN  IF t.elapsed
        THEN timer_interbyte_expired([inst EXCEPT !.tmr_interbyte_timeout = t.timer])
        ELSE [inst EXCEPT !.tmr_interbyte_timeout = t.timer]

\* t1_timer_task: if(timer_elapsed(&inst->tmr_atr_timeout, ...)) {...}
timer_check_atr(inst, elapsed_ms) ==
  LET t == timer_elapsed(inst.tmr_atr_timeout, elapsed_ms)
  IN  IF t.elapsed
        THEN event_add([inst EXCEPT !.tmr_atr_timeout = t.timer], event(t1_ev_err_atr_timeout))
        ELSE [inst EXCEPT !.tmr_atr_timeout = t.timer]

\* t1_timer_task: if(timer_elapsed(&inst->tmr_response_timeout, ...)) {...}
timer_check_response(inst, elapsed_ms) ==
  LET t == timer_elapsed(inst.tmr_response_timeout, elapsed_ms)
  IN  IF t.elapsed
        THEN timer_response_expired([inst EXCEPT !.tmr_response_timeout = t.timer])
        ELSE [inst EXCEPT !.tmr_response_timeout = t.timer]

t1_timer_task(inst0, elapsed_ms, tx_ok) ==
  IF inst0.fsm_state # t1_st_error /\ elapsed_ms # 0
    THEN handle_events(
           timer_check_response(
             timer_check_atr(
               timer_check_interbyte(timer_ifsd_prepare(Enter(inst0, tx_ok)), elapsed_ms),
               elapsed_ms),
             elapsed_ms))
    ELSE Enter(inst0, tx_ok)

t1_serial_in(inst0, buf, tx_ok) ==
  LET inst == Enter(inst0, tx_ok)
  IN  IF Len(buf) # 0 /\ inst.fsm_state # t1_st_error
        THEN LET tm == Tmr(inst.config.tm_interbyte)
                 r == IF inst.fsm_state = t1_st_wait_atr
                        THEN add_ret(handle_atr_data([inst EXCEPT !.tmr_interbyte_timeout = tm], buf))
                      ELSE IF inst.fsm_state = t1_st_pps_exchange
                        THEN handle_pps_data([inst EXCEPT !.tmr_interbyte_timeout = tm], buf)
                      ELSE IF inst.fsm_state \in
                                {t1_st_ifsd_setup, t1_st_wait_response, t1_st_resync}
                        THEN add_ret(handle_t1_data([inst EXCEPT !.tmr_interbyte_timeout = tm], buf))
                      ELSE inst
             IN  handle_events(r)
        ELSE inst

\* t1_transmit_apdu that does not look at the FSM state before sending
t1_transmit_apdu_any_state(inst0, apdu, tx_ok) ==
  LET inst == Enter(inst0, tx_ok)
  IN  IF Len(apdu) # 0 /\ inst.fsm_state # t1_st_error
        THEN Bind(push_iblock_chain(inst, apdu),
                  LAMBDA c :
                    IF c.ret
                      THEN Bind(tx_fifo_send_last_block(c),
                                LAMBDA s :
                                  Ret(handle_event([s EXCEPT !.fsm_state =
                                                               t1_st_wait_response],
                                                   s.ret),
                                      ~is_error(s.ret)))
                      ELSE Ret(c, FALSE))
        ELSE Ret(inst, FALSE)

\* The result is in ret
t1_transmit_apdu(inst0, apdu, tx_ok) ==
  LET inst == Enter(inst0, tx_ok)
  IN  IF Len(apdu) # 0 /\ inst.fsm_state # t1_st_error
        THEN Bind(push_iblock_chain(inst, apdu),
                  LAMBDA c :
                    IF c.ret
                      THEN IF c.fsm_state = t1_st_idle
                             THEN Bind(tx_fifo_send_last_block(c),
                                       LAMBDA s :
                                         Ret(handle_event([s EXCEPT !.fsm_state =
                                                                      t1_st_wait_response],
                                                          s.ret),
                                             ~is_error(s.ret)))
                             ELSE Ret(c, TRUE)
                      ELSE Ret(c, FALSE))
        ELSE Ret(inst, FALSE)

t1_has_error(inst) == inst.fsm_state = t1_st_error


(***************************************************************************)
(* The card: blocks as they arrive on the serial line                      *)
(***************************************************************************)
\* A T=1 block (NAD, PCB, LEN, INF, EDC) with the EDC of the current
\* configuration
CardBlock(inst, pcb, inf) ==
  LET body == << 0, pcb, Len(inf) >> \o inf
  IN  body \o calc_edc(inst, body)

CardIBlock(inst, ns, more_data, inf) ==
  CardBlock(inst, BitOr(IF ns # 0 THEN IB_NS_BIT ELSE 0,
                        IF more_data THEN IB_M_BIT ELSE 0), inf)

CardRBlock(inst, nr, ack_code) ==
  CardBlock(inst, BitOr(BitOr(RB_MARKER, IF nr # 0 THEN RB_NS_BIT ELSE 0), ack_code), << >>)

CardSBlock(inst, command, is_response, inf) ==
  CardBlock(inst, BitOr(BitOr(SB_MARKER, command), IF is_response THEN SB_RESP_BIT ELSE 0), inf)

\* A block whose last EDC byte is damaged on the line
Corrupt(block) ==
  [block EXCEPT ![Len(block)] = BitXor(block[Len(block)], 1)]

\* The block a serial output consists of, decoded: PCB, INF and whether the
\* EDC matches
OutBlock(inst, bytes) ==
  LET len == bytes[3]
      body == Slice(bytes, 1, prologue_size + len)
  IN  [pcb |-> bytes[2], inf |-> Slice(bytes, prologue_size + 1, prologue_size + len),
       edc_ok |-> bytes = body \o calc_edc(inst, body)]

\* Everything one API call wrote to the serial line, in order
RECURSIVE Flatten(_)
Flatten(ss) == IF ss = << >> THEN << >> ELSE Head(ss) \o Flatten(Tail(ss))

(***************************************************************************)
(* State                                                                   *)
(***************************************************************************)
VARIABLES
  inst,    \* the protocol instance (t1_inst_t) with the effects of the last call
  call,    \* the last API call: its name and arguments
  nsteps,  \* number of API calls made
  hist,    \* what the host and the card have exchanged in the current scenario
  conn     \* the connection object (scard_connection_obj_t)

vars == << inst, call, nsteps, hist, conn >>

\* The protocol instance of protocols.c: zero-filled memory, then t1_init
NewInst == t1_init(ZeroInst)

\* An API call is over: the answer of cb_serial_out is not part of the instance
Leave(i) == [i EXCEPT !.tx_ok = TRUE, !.elist = << >>, !.hw = << >>]

\* The program fields of an instance, without the record of the last call
Core(i) == Enter(i, TRUE)

\* The last API call: its name, its arguments and the instance it found
Call(op, arg, pre) == [op |-> op, arg |-> arg, pre |-> pre]


(***************************************************************************)
(* The engine under arbitrary API calls (protocols.c calls t1_reset,        *)
(* t1_serial_in, t1_timer_task and t1_transmit_apdu in any order)           *)
(***************************************************************************)
\* Number of API calls after t1_init
MaxSteps == 4

\* TS T0 TD1 TA2 TD2 TA3 TB3 TC3 TCK: a T=1 card announcing IFSC in TA3
AtrBody(ifsc) == << 128, 145, 129, 113, ifsc, 0, 0 >>
AtrT1(ifsc) ==
  << TS_CONVENTION_DIRECT >> \o AtrBody(ifsc) \o << lrc_range(AtrBody(ifsc), 1, 7) >>
\* TS T0 TA1 K1: a card that offers T=0 only
AtrT0 == << TS_CONVENTION_DIRECT, 144, 17, 0 >>

ApduSet == { << 0, 164, 4, 0 >> }
RespInf == << 144, 0 >>
BigInf == [k \in 1..128 |-> k]

\* What the serial line may deliver in the current state of the engine
SerialInputs(i) ==
  IF i.fsm_state = t1_st_wait_atr
    THEN { AtrT1(16), AtrT0, << 0, 0 >> }
  ELSE IF i.fsm_state = t1_st_pps_exchange
    THEN { << PPSS, atr_prot_t1, 254 >>, << PPSS, atr_prot_t1, 1 >> }
  ELSE { CardIBlock(i, i.rx_seq_number, FALSE, RespInf),
         CardIBlock(i, i.rx_seq_number, TRUE, BigInf),
         CardRBlock(i, 0, t1_rblock_ack_err_edc),
         CardSBlock(i, t1_sblock_cmd_ifs, TRUE, << IFS_MAX >>),
         CardSBlock(i, t1_sblock_cmd_abort, FALSE, << >>) }

Init ==
  /\ inst = Leave(NewInst)
  /\ call = Call("init", << >>, Leave(NewInst))
  /\ nsteps = 0
  /\ hist = << >>
  /\ conn = << >>

Reset(wait_atr) ==
  /\ inst' = Leave(Enter(t1_reset(inst, wait_atr), TRUE))
  /\ call' = Call("reset", wait_atr, inst)

SerialIn(buf, tx_ok) ==
  /\ inst' = Leave(t1_serial_in(inst, buf, tx_ok))
  /\ call' = Call("serial_in", buf, inst)

TimerTask(elapsed_ms, tx_ok) ==
  /\ inst' = Leave(t1_timer_task(inst, elapsed_ms, tx_ok))
  /\ call' = Call("timer_task", elapsed_ms, inst)

TransmitApdu(apdu, tx_ok) ==
  /\ inst' = Leave(t1_transmit_apdu(inst, apdu, tx_ok))
  /\ call' = Call("transmit_apdu", apdu, inst)

Step ==
  /\ nsteps < MaxSteps
  /\ nsteps' = nsteps + 1
  /\ UNCHANGED << hist, conn >>

Next ==
  \/ \E w \in BOOLEAN : Reset(w) /\ Step
  \/ \E ok \in BOOLEAN : \E buf \in SerialInputs(inst) : SerialIn(buf, ok) /\ Step
  \/ \E ok \in BOOLEAN : TimerTask(TM_MAX, ok) /\ Step
  \/ \E ok \in BOOLEAN : \E apdu \in ApduSet : TransmitApdu(apdu, ok) /\ Step

Spec == Init /\ [][Next]_vars

\* Number of I-blocks a chain of len bytes consists of with the current IFSC
ChainBlocks(i, len) == (len + i.config.ifsc - 1) \div i.config.ifsc

\* C4 as stated: every t1_transmit_apdu call made while the FSM is in wait_atr
\* returns false and queues nothing.
C4_Refused ==
  (call.op = "transmit_apdu" /\ call.pre.fsm_state = t1_st_wait_atr)
    => /\ inst.ret = FALSE
       /\ inst.tx_fifo = call.pre.tx_fifo
       /\ inst.tx_fifo_nblock = call.pre.tx_fifo_nblock

\* C4, amended: a t1_transmit_apdu call made while the FSM is in wait_atr sends
\* nothing and raises no event: the chain is queued in the TX FIFO, the call
\* returns true and the FSM stays in wait_atr.
C4_QueuedNotSent ==
  (call.op = "transmit_apdu" /\ call.pre.fsm_state = t1_st_wait_atr)
    => /\ inst.out = << >>
       /\ inst.evs = << >>
       /\ inst.fsm_state = t1_st_wait_atr
       /\ inst.ret = TRUE
       /\ inst.tx_fifo_nblock = call.pre.tx_fifo_nblock + ChainBlocks(call.pre, Len(call.arg))
       /\ fifo_nused(inst.tx_fifo) > fifo_nused(call.pre.tx_fifo)

\* A t1_transmit_apdu call in wait_atr that has queued its chain
C4_Witness ==
  /\ call.op = "transmit_apdu"
  /\ call.pre.fsm_state = t1_st_wait_atr
  /\ inst.ret = TRUE
  /\ inst.tx_fifo_nblock = 1

\* C5: every error event finds the FSM in error when the callback is invoked,
\* and in error t1_serial_in, t1_timer_task and t1_transmit_apdu write nothing
\* to the serial line, raise no event and change nothing; t1_transmit_apdu
\* returns false.
C5_ErrorAbsorbing ==
  /\ \A k \in 1..Len(inst.evs) :
       inst.evs[k].code >= t1_ev_err_internal => inst.evs[k].state = t1_st_error
  /\ (\E k \in 1..Len(inst.evs) : inst.evs[k].code >= t1_ev_err_internal)
       => t1_has_error(inst)
  /\ (call.op \in {"serial_in", "timer_task", "transmit_apdu"} /\ t1_has_error(call.pre))
       => /\ inst.out = << >>
          /\ inst.evs = << >>
          /\ Core(inst) = Core(call.pre)
          /\ call.op = "transmit_apdu" => inst.ret = FALSE

\* t1_transmit_apdu called on an engine that the previous call's error event
\* has put into error
C5_Witness ==
  /\ call.op = "transmit_apdu"
  /\ t1_has_error(call.pre)
  /\ \E k \in 1..Len(call.pre.evs) : call.pre.evs[k].code >= t1_ev_err_internal
  /\ inst.ret = FALSE


(***************************************************************************)
(* Sending an APDU to a card that acknowledges or rejects each I-block      *)
(* (the serial line works: cb_serial_out returns true)                      *)
(***************************************************************************)
\* IFSC values (t1_cfg_ifsc) and APDU lengths of the scenario
ChainIfsc == { IFS_MIN, 2, IFS_MAX }
ChainLens == { 1, 2, 3, 255, 1007, 1008 }

\* The card sends its error R-blocks in one run of at most MaxNaks blocks
MaxNaks == 12

ChainApdu(len) == [k \in 1..len |-> (37 * k + 11) % 256]

\* The I-blocks among the blocks an API call has written to the serial line
OutIBlocks(i) ==
  IF i.out = << >> THEN << >>
  ELSE LET b == OutBlock(i, Flatten(i.out))
       IN  IF b.pcb < RB_MARKER
             THEN << [ns |-> IF BitAnd(b.pcb, IB_NS_BIT) # 0 THEN 1 ELSE 0,
                      more |-> BitAnd(b.pcb, IB_M_BIT) # 0,
                      inf |-> b.inf] >>
             ELSE << >>

\* What the card has seen of the exchange:
\*   apdu, ret  the APDU handed to t1_transmit_apdu and the result of the call
\*   clean      the card has acknowledged every block so far
\*   sent       the I-blocks the engine has output while clean
\*   cur, ntx   the last I-block output and how often it has been output since
\*              the card's last block that was not an error R-block
\*   run, naks  number of error R-blocks in a row, and in total
NoBlock == [ns |-> 0, more |-> FALSE, inf |-> << >>]

Observe(h, post, nak) ==
  LET o == OutIBlocks(post)
  IN  [h EXCEPT !.clean = h.clean /\ ~nak,
                !.sent = IF h.clean /\ ~nak THEN h.sent \o o ELSE h.sent,
                !.cur = IF o = << >> THEN h.cur ELSE o[1],
                !.ntx = IF o = << >> THEN h.ntx
                        ELSE IF nak /\ o[1] = h.cur THEN h.ntx + 1 ELSE 1,
                !.run = IF nak THEN h.run + 1 ELSE 0,
                !.naks = IF nak THEN h.naks + 1 ELSE h.naks]

InitChain ==
  /\ \E n \in ChainIfsc :
       /\ inst = Leave(Enter(t1_reset(t1_set_config(NewInst, "ifsc", n), FALSE), TRUE))
       /\ hist = [ifsc |-> n, apdu |-> << >>, ret |-> FALSE, clean |-> TRUE,
                  sent |-> << >>, cur |-> NoBlock, ntx |-> 0, run |-> 0, naks |-> 0]
  /\ call = Call("reset", FALSE, Leave(NewInst))
  /\ nsteps = 0
  /\ conn = << >>

ChainStep(post) ==
  /\ inst' = Leave(post)
  /\ UNCHANGED << nsteps, conn >>

\* The host hands one APDU to the idle engine
ChainTransmit(len) ==
  /\ hist.apdu = << >>
  /\ inst.fsm_state = t1_st_idle
  /\ LET post == t1_transmit_apdu(inst, ChainApdu(len), TRUE)
     IN  /\ ChainStep(post)
         /\ call' = Call("transmit_apdu", ChainApdu(len), inst)
         /\ hist' = Observe([hist EXCEPT !.apdu = ChainApdu(len), !.ret = inst'.ret],
                            inst', FALSE)

\* The card acknowledges the I-block it has received and asks for the next
CardAck ==
  /\ inst.fsm_state = t1_st_wait_response
  /\ hist.cur.more
  /\ LET buf == CardRBlock(inst, 1 - hist.cur.ns, t1_rblock_ack_ok)
         post == t1_serial_in(inst, buf, TRUE)
     IN  /\ ChainStep(post)
         /\ call' = Call("card_ack", buf, inst)
         /\ hist' = Observe(hist, inst', FALSE)

\* The card reports the I-block it has received as damaged
CardNak(ack_code) ==
  /\ inst.fsm_state \in {t1_st_wait_response, t1_st_resync}
  /\ hist.ntx > 0
  /\ hist.naks = hist.run
  /\ hist.naks < MaxNaks
  /\ LET buf == CardRBlock(inst, hist.cur.ns, ack_code)
         post == t1_serial_in(inst, buf, TRUE)
     IN  /\ ChainStep(post)
         /\ call' = Call("card_nak", buf, inst)
         /\ hist' = Observe(hist, inst', TRUE)

\* The card answers the complete command
CardReply ==
  /\ inst.fsm_state = t1_st_wait_response
  /\ hist.ntx > 0
  /\ ~hist.cur.more
  /\ LET buf == CardIBlock(inst, inst.rx_seq_number, FALSE, RespInf)
         post == t1_serial_in(inst, buf, TRUE)
     IN  /\ ChainStep(post)
         /\ call' = Call("card_reply", buf, inst)
         /\ hist' = Observe(hist, inst', FALSE)

\* The card answers S(RESYNCH request)
CardResynch ==
  /\ inst.fsm_state = t1_st_resync
  /\ LET buf == CardSBlock(inst, t1_sblock_cmd_resynch, TRUE, << >>)
         post == t1_serial_in(inst, buf, TRUE)
     IN  /\ ChainStep(post)
         /\ call' = Call("card_resynch", buf, inst)
         /\ hist' = Observe(hist, inst', FALSE)

NextChain ==
  \/ \E len \in ChainLens : ChainTransmit(len)
  \/ CardAck
  \/ \E ack_code \in {t1_rblock_ack_err_edc, t1_rblock_ack_err_other} : CardNak(ack_code)
  \/ CardReply
  \/ CardResynch

SpecChain == InitChain /\ [][NextChain]_vars

\* ceil(L / n) blocks: block k carries bytes (k-1)n+1 .. min(kn, L) of the
\* APDU and has M = 1 unless it is the last
ExpectedChain(apdu, n) ==
  LET nb == (Len(apdu) + n - 1) \div n
  IN  [k \in 1..nb |-> [more |-> k < nb,
                        inf |-> Slice(apdu, (k - 1) * n + 1, Min(k * n, Len(apdu)))]]

SentChain == [k \in 1..Len(hist.sent) |-> [more |-> hist.sent[k].more, inf |-> hist.sent[k].inf]]

IsPrefix(s, t) == Len(s) <= Len(t) /\ \A k \in 1..Len(s) : s[k] = t[k]

\* The card has nothing left to acknowledge
ChainOver == ~(inst.fsm_state = t1_st_wait_response /\ hist.cur.more)

ChainAsExpected ==
  /\ IsPrefix(SentChain, ExpectedChain(hist.apdu, hist.ifsc))
  /\ ChainOver => SentChain = ExpectedChain(hist.apdu, hist.ifsc)

\* C1 as stated: for every APDU handed to t1_transmit_apdu and a card that
\* acknowledges each block, the engine outputs exactly ceil(L/n) I-blocks whose
\* INF fields make up the APDU, all but the last with M = 1.
C1_EveryApdu ==
  (hist.apdu # << >> /\ hist.clean) => ChainAsExpected

\* C1, amended: the same for every APDU that t1_transmit_apdu accepts (returns
\* true) on an idle engine; an APDU whose chain the TX FIFO cannot take is
\* refused and no I-block is output for it.
C1_AcceptedApdu ==
  /\ (hist.apdu # << >> /\ hist.clean /\ hist.ret) => ChainAsExpected
  /\ (hist.apdu # << >> /\ ~hist.ret) => hist.sent = << >> /\ hist.ntx = 0

\* A chain of three blocks has been sent to a card that acknowledged each
C1_Witness ==
  /\ hist.clean
  /\ hist.ret
  /\ ChainOver
  /\ Len(hist.sent) = 3
  /\ Len(hist.apdu) = 3

\* C2: t1_transmit_apdu either queues the whole chain or returns false and
\* leaves the FIFO contents, tx_fifo_nblock and tx_seq_number as they were.
C2_Atomic ==
  (call.op = "transmit_apdu" /\ ~inst.ret)
    => /\ inst.tx_fifo = call.pre.tx_fifo
       /\ inst.tx_fifo_nblock = call.pre.tx_fifo_nblock
       /\ inst.tx_seq_number = call.pre.tx_seq_number

\* The S(RESYNCH request) block of the current configuration
ResynchRequest(i) == CardSBlock(i, t1_sblock_cmd_resynch, FALSE, << >>)

\* C7: while the card answers a sent I-block with error R-blocks the engine
\* sends the same I-block again, until it has been sent DELIVERY_ATTEMPTS
\* times; the next error R-block puts the engine into resync with the attempt
\* counter reset and S(RESYNCH request) on the line.
C7_Retransmit ==
  (call.op = "card_nak" /\ call.pre.fsm_state = t1_st_wait_response)
    => IF hist.run < DELIVERY_ATTEMPTS
         THEN /\ OutIBlocks(inst) = << hist.cur >>
              /\ Flatten(inst.out) = CardIBlock(inst, hist.cur.ns, hist.cur.more, hist.cur.inf)
              /\ hist.ntx = hist.run + 1
              /\ inst.fsm_state = t1_st_wait_response
              /\ inst.tx_attempts = hist.run
         ELSE /\ hist.ntx = DELIVERY_ATTEMPTS
              /\ inst.fsm_state = t1_st_resync
              /\ inst.tx_attempts = 0
              /\ Flatten(inst.out) = ResynchRequest(inst)

\* The tenth error R-block in a row has arrived
C7_Witness ==
  /\ call.op = "card_nak"
  /\ call.pre.fsm_state = t1_st_wait_response
  /\ hist.run = DELIVERY_ATTEMPTS
  /\ hist.ntx = DELIVERY_ATTEMPTS
  /\ inst.fsm_state = t1_st_resync


(***************************************************************************)
(* Receiving the card's answer to a command (the serial line works)         *)
(***************************************************************************)
\* INF lengths of the command and of the card's I-blocks
CmdLens == { IFS_MAX }
RespLens == { 60, 67, 128, IFS_MAX }
\* Number of I-blocks in the card's answer, and of blocks the engine rejects
MaxRespBlocks == 3
MaxBad == 10
\* The card sends such blocks only before block MaxBadAfter + 1 of its answer
MaxBadAfter == 1

\* The card's data: byte k of its answer
RespData(off, len) == [k \in 1..len |-> (13 * (off + k) + 5) % 256]

\* The APDU buffer, and what save_apdu_data will append to
ApduBuf(i) == [k \in 1..i.rx_apdu_len |-> i.rx_apdu[k - 1]]
EffApdu(i) == IF i.rx_new_apdu THEN << >> ELSE ApduBuf(i)

\* The payloads of the apdu_received events of the last call
Received(i) ==
  LET idx == { k \in 1..Len(i.evs) : i.evs[k].code = t1_ev_apdu_received }
  IN  IF idx = { } THEN << >> ELSE << i.evs[CHOOSE k \in idx : TRUE].prm >>

\* What the card has seen of the exchange:
\*   cmd    the APDU of the command
\*   rsp    the INF fields, concatenated, of the I-blocks the card has sent
\*          with the N(S) the engine expects; lens are their lengths
\*   clean  the card has sent nothing else
\*   bad    number of blocks the card has sent that the engine must reject
\*   recv   the APDUs delivered by apdu_received events
InitResp ==
  /\ inst = Leave(Enter(t1_reset(t1_set_config(NewInst, "ifsc", IFS_MAX), FALSE), TRUE))
  /\ call = Call("reset", FALSE, Leave(NewInst))
  /\ nsteps = 0
  /\ hist = [cmd |-> << >>, rsp |-> << >>, lens |-> << >>, clean |-> TRUE,
             bad |-> 0, recv |-> << >>]
  /\ conn = << >>

RespStep(post) ==
  /\ inst' = Leave(post)
  /\ UNCHANGED << nsteps, conn >>

\* The host sends a command that fits into one I-block
RespTransmit(len) ==
  /\ hist.cmd = << >>
  /\ inst.fsm_state = t1_st_idle
  /\ RespStep(t1_transmit_apdu(inst, ChainApdu(len), TRUE))
  /\ call' = Call("transmit_apdu", ChainApdu(len), inst)
  /\ hist' = [hist EXCEPT !.cmd = ChainApdu(len)]

\* The card sends an I-block with a valid EDC; in_seq: its N(S) is the one the
\* engine expects
CardIBlockIn(in_seq, more, len) ==
  /\ inst.fsm_state = t1_st_wait_response
  /\ IF in_seq THEN Len(hist.lens) < MaxRespBlocks /\ hist.bad = 0
               ELSE hist.bad < MaxBad /\ Len(hist.lens) <= MaxBadAfter
                    /\ len = 60 /\ ~more
  /\ LET ns == IF in_seq THEN inst.rx_seq_number ELSE 1 - inst.rx_seq_number
         inf == RespData(Len(hist.rsp), len)
     IN  /\ RespStep(t1_serial_in(inst, CardIBlock(inst, ns, more, inf), TRUE))
         /\ call' = Call("card_iblock", [ns |-> ns, more |-> more, inf |-> inf], inst)
         /\ hist' = IF in_seq
                      THEN [hist EXCEPT !.rsp = hist.rsp \o inf,
                                        !.lens = Append(hist.lens, len),
                                        !.recv = hist.recv \o Received(inst')]
                      ELSE [hist EXCEPT !.clean = FALSE, !.bad = hist.bad + 1,
                                        !.recv = hist.recv \o Received(inst')]

\* The card starts a block whose LEN byte is 255
CardLen255 ==
  /\ inst.fsm_state = t1_st_wait_response
  /\ hist.bad < MaxBad
  /\ Len(hist.lens) <= MaxBadAfter
  /\ RespStep(t1_serial_in(inst, << 0, 0, UINT8_MAX >>, TRUE))
  /\ call' = Call("card_len255", << 0, 0, UINT8_MAX >>, inst)
  /\ hist' = [hist EXCEPT !.clean = FALSE, !.bad = hist.bad + 1,
                          !.recv = hist.recv \o Received(inst')]

NextResp ==
  \/ \E len \in CmdLens : RespTransmit(len)
  \/ \E in_seq, more \in BOOLEAN : \E len \in RespLens : CardIBlockIn(in_seq, more, len)
  \/ CardLen255

SpecResp == InitResp /\ [][NextResp]_vars

\* The bad-block path (handle_bad_block) for a received I-block: an R-block
\* with err_other and the expected N(S), or the escalation once the delivery
\* attempts are used up
BadBlockReply ==
  /\ Flatten(inst.out) = CardRBlock(inst, call.pre.rx_seq_number, t1_rblock_ack_err_other)
  /\ inst.tx_attempts = call.pre.tx_attempts + 1
  /\ inst.evs = << >>

BadBlockEscalation ==
  \/ /\ Len(inst.evs) = 1
     /\ inst.evs[1].code = t1_ev_err_comm_failure
     /\ t1_has_error(inst)
  \/ /\ inst.fsm_state = t1_st_resync
     /\ Flatten(inst.out) = ResynchRequest(inst)

RxUnchanged ==
  /\ inst.rx_seq_number = call.pre.rx_seq_number
  /\ ApduBuf(inst) = ApduBuf(call.pre)
  /\ inst.rx_new_apdu = call.pre.rx_new_apdu

RxAccepted ==
  /\ inst.rx_seq_number = 1 - call.pre.rx_seq_number
  /\ ApduBuf(inst) = EffApdu(call.pre) \o call.arg.inf

IBlockInWaitResponse ==
  call.op = "card_iblock" /\ call.pre.fsm_state = t1_st_wait_response

\* C3 as stated: in wait_response an EDC-valid I-block is accepted exactly when
\* its N(S) equals rx_seq_number: then rx_seq_number is complemented and the
\* INF appended to the APDU buffer; otherwise both are unchanged and the
\* bad-block path is taken.
C3_AcceptIffSeq ==
  IBlockInWaitResponse
    => IF call.arg.ns = call.pre.rx_seq_number
         THEN RxAccepted
         ELSE RxUnchanged /\ (BadBlockReply \/ BadBlockEscalation)

\* C3, amended: the same as long as the call raises no error event, that is,
\* the INF fits into the APDU buffer and delivery attempts are left; an INF
\* that does not fit raises err_oversized_apdu, and a block with another N(S)
\* that uses up the attempts escalates; an error event resets the engine.
C3_AcceptIffSeqNoError ==
  IBlockInWaitResponse
    => IF call.arg.ns = call.pre.rx_seq_number
         THEN IF Len(EffApdu(call.pre)) + Len(call.arg.inf) <= T1_MAX_APDU_SIZE
                THEN RxAccepted
                ELSE /\ Len(inst.evs) = 1
                     /\ inst.evs[1].code = t1_ev_err_oversized_apdu
                     /\ t1_has_error(inst)
                     /\ inst.rx_apdu_len = 0
         ELSE IF call.pre.tx_attempts + 1 < DELIVERY_ATTEMPTS
                THEN RxUnchanged /\ BadBlockReply
                ELSE BadBlockEscalation

\* An I-block with the expected N(S) was appended to a buffer that already
\* held a block of the chain
C3_Witness ==
  /\ IBlockInWaitResponse
  /\ call.arg.ns = call.pre.rx_seq_number
  /\ call.pre.rx_seq_number = 1
  /\ EffApdu(call.pre) # << >>
  /\ RxAccepted

\* After an I-block with M = 1: R(ack_ok) with N(R) = the new rx_seq_number;
\* after the I-block with M = 0: one apdu_received with the whole answer
ChainReply ==
  IF call.arg.more
    THEN /\ Flatten(inst.out) = CardRBlock(inst, inst.rx_seq_number, t1_rblock_ack_ok)
         /\ inst.rx_seq_number = Len(hist.lens) % 2
         /\ inst.evs = << >>
         /\ hist.recv = << >>
    ELSE /\ inst.out = << >>
         /\ Len(inst.evs) = 1
         /\ inst.evs[1].code = t1_ev_apdu_received
         /\ inst.evs[1].prm = hist.rsp
         /\ hist.recv = << hist.rsp >>

\* C6 as stated: for a chain of I-blocks from the card, the engine replies
\* R(ack_ok, N(R) = new rx_seq_number) to each block with M = 1 and delivers one
\* apdu_received after the block with M = 0, with the concatenated INF fields
\* (128 + 128 + 60 bytes give a 316-byte APDU).
C6_Chain ==
  (call.op = "card_iblock" /\ hist.clean) => ChainReply

\* C6, amended: the same for a chain of at most T1_MAX_APDU_SIZE bytes in all;
\* the block that takes the chain beyond that raises err_oversized_apdu and no
\* APDU is delivered.
C6_ChainFits ==
  (call.op = "card_iblock" /\ hist.clean)
    => IF Len(hist.rsp) <= T1_MAX_APDU_SIZE
         THEN ChainReply
         ELSE /\ Len(inst.evs) = 1
              /\ inst.evs[1].code = t1_ev_err_oversized_apdu
              /\ t1_has_error(inst)
              /\ inst.out = << >>
              /\ hist.recv = << >>

\* Blocks of 128 and 67 bytes with M = 1 and 60 bytes with M = 0 were delivered
\* as one APDU of 255 bytes
C6_Witness ==
  /\ call.op = "card_iblock"
  /\ hist.clean
  /\ hist.lens = << 128, 67, 60 >>
  /\ hist.recv = << hist.rsp >>
  /\ Len(hist.rsp) = T1_MAX_APDU_SIZE

\* C9: a received block with LEN = 254 is collected and dispatched; a LEN byte
\* of 255 runs the bad-block handling and restarts reception, no block being
\* dispatched; with IFSC = 254 an APDU of 254 bytes is sent as one I-block.
C9_Len254 ==
  /\ (IBlockInWaitResponse /\ Len(call.arg.inf) = IFS_MAX /\ hist.clean
        /\ Len(hist.lens) = 1)
       => RxAccepted /\ ChainReply
  /\ call.op = "card_len255"
       => /\ inst.rx_state = t1_rxs_skip
          /\ inst.rx_buf_idx = 0
          /\ hist.recv = << >>
          /\ IF call.pre.tx_attempts + 1 < DELIVERY_ATTEMPTS
               THEN RxUnchanged /\ BadBlockReply
               ELSE BadBlockEscalation
  /\ (call.op = "transmit_apdu" /\ Len(call.arg) = IFS_MAX)
       => /\ inst.ret = TRUE
          /\ OutIBlocks(inst) = << [ns |-> 0, more |-> FALSE, inf |-> call.arg] >>
          /\ Len(Flatten(inst.out)) = prologue_size + IFS_MAX + LRC_SIZE

\* A LEN byte of 255 has arrived after a block of 254 bytes was received in
\* answer to a command of 254 bytes
C9_Witness ==
  /\ call.op = "card_len255"
  /\ BadBlockReply
  /\ Len(hist.cmd) = IFS_MAX
  /\ hist.lens = << IFS_MAX >>


(***************************************************************************)
(* The timers: the ATR timer armed by t1_reset(inst, true) and the response *)
(* timer armed when a block is sent, under t1_timer_task calls alone        *)
(***************************************************************************)
\* Timeouts (t1_cfg_tm_atr, t1_cfg_tm_response) and elapsed times, in ms
TimerValues == { 1, 2, 3, 5, TM_MAX }
TimerTicks == { 1, 2, 3, TM_MAX }
\* Number of t1_timer_task calls
MaxChecks == 5

\* What the host has seen of the timer since it was armed:
\*   timer   "atr" or "response"; T its value when armed
\*   calls   number of t1_timer_task calls in all
\*   checks  number of checks of the timer since it was armed, acc the sum of
\*           their elapsed times
\*   fired   number of expiries reported since it was armed
\*   rearm   the last call reported the expiry and armed the timer again
InitTimer ==
  /\ \E T \in TimerValues :
       \/ /\ inst = Leave(Enter(t1_reset(t1_set_config(NewInst, "tm_atr", T), TRUE), TRUE))
          /\ hist = [timer |-> "atr", T |-> T, calls |-> 0, checks |-> 0, acc |-> 0,
                     fired |-> 0, rearm |-> FALSE]
       \/ /\ inst = Leave(t1_transmit_apdu(
                            t1_reset(t1_set_config(NewInst, "tm_response", T), FALSE),
                            << 0, 164, 4, 0 >>, TRUE))
          /\ hist = [timer |-> "response", T |-> T, calls |-> 0, checks |-> 0, acc |-> 0,
                     fired |-> 0, rearm |-> FALSE]
  /\ call = Call("reset", FALSE, Leave(NewInst))
  /\ nsteps = 0
  /\ conn = << >>

\* The call has reported the expiry of the timer under observation
Expired(i) ==
  IF hist.timer = "atr"
    THEN \E k \in 1..Len(i.evs) : i.evs[k].code = t1_ev_err_atr_timeout
    ELSE i.out # << >> \/ i.evs # << >>

TimerCheck(elapsed_ms) ==
  /\ hist.calls < MaxChecks
  /\ inst' = Leave(t1_timer_task(inst, elapsed_ms, TRUE))
  /\ call' = Call("timer_task", elapsed_ms, inst)
  /\ LET h == IF hist.rearm
                THEN [hist EXCEPT !.checks = 0, !.acc = 0, !.fired = 0] ELSE hist
     IN  hist' = [h EXCEPT !.calls = hist.calls + 1,
                           !.checks = h.checks + 1,
                           !.acc = h.acc + elapsed_ms,
                           !.fired = h.fired + (IF Expired(inst') THEN 1 ELSE 0),
                           !.rearm = Expired(inst')
                                       /\ TmrNonZero(inst'.tmr_response_timeout)]
  /\ UNCHANGED << nsteps, conn >>

NextTimer == \E elapsed_ms \in TimerTicks : TimerCheck(elapsed_ms)

SpecTimer == InitTimer /\ [][NextTimer]_vars

\* The timer variable under observation
ObservedTimer(i) ==
  IF hist.timer = "atr" THEN i.tmr_atr_timeout ELSE i.tmr_response_timeout

\* C8: a timer armed with T reports no expiry on the first check after arming,
\* whatever time has elapsed; it reports expiry on the first later check at
\* which the elapsed times add up to T or more, and only on that one: the
\* timer is disarmed by the report.
C8_TimerExpiry ==
  call.op = "timer_task"
    => /\ hist.checks = 1 => ~Expired(inst) /\ hist.fired = 0
       /\ hist.fired = (IF hist.checks >= 2 /\ hist.acc >= hist.T THEN 1 ELSE 0)
       /\ Expired(inst) <=> /\ hist.checks >= 2
                             /\ hist.acc >= hist.T
                             /\ (hist.checks = 2 \/ hist.acc - call.arg < hist.T)
       /\ (hist.fired = 1 /\ ~hist.rearm) => ~TmrNonZero(ObservedTimer(inst))
       /\ hist.rearm => ObservedTimer(inst) = Tmr(hist.T)

\* The first check came after T or more milliseconds and reported nothing; a
\* later check reported the expiry and the checks after it did not
C8_Witness ==
  /\ call.op = "timer_task"
  /\ hist.timer = "atr"
  /\ hist.checks = 4
  /\ hist.fired = 1
  /\ ~Expired(inst)
  /\ hist.T = 5
  /\ hist.acc >= TM_MAX


(***************************************************************************)
(* The card connection (connection.c) over the protocol wrapper             *)
(* (protocols.c).  A connection with its T=1 instance is a record           *)
(* [conn, t1]; conn holds the fields of connection_obj_t and                *)
(*   pres_pin  the level of the card presence pin (hardware)                *)
(*   writes    the scard_pin_write calls of the current API call            *)
(*   raised    the message of the exception in flight, "" for none          *)
(*   pc        "api", or "wait_connect" inside wait_connect_blocking        *)
(*   observers the number of observers in the list of observers             *)
(*   sched     the number of scheduled calls of connection_notifyAll        *)
(*   seen      the calls of observers made by the current API call, each    *)
(*             << index of the observer, event >>                           *)
(*   reader    whether the connection is bound to its reader                *)
(*   sample    the level of the presence pin that card_detection_task read  *)
(*             in the current API call, as a sequence; empty if it did not  *)
(*             run                                                          *)
(*   queued    the events stored by create_event since the last             *)
(*             connection_notifyAll, in the order of the calls              *)
(* The timeouts are proto_prm_unchanged, so set_timeouts changes nothing.   *)
(***************************************************************************)
state_closed == "closed"
state_disconnected == "disconnected"
state_connecting == "connecting"
state_connected == "connected"
state_error == "error"

INACT == 0
ACT == 1
T0_protocol == 1
T1_protocol == 2
protocol_any == BitOr(T0_protocol, T1_protocol)
protocol_na == 0
CARD_PRESENCE_CYCLES == 5
EVENT_MAX_KW == 1
\* MAX_EVENTS of connection.c, the number of events in the event buffer
CONN_MAX_EVENTS == 4

\* errors_t1 and error_text
error_text(id) ==
  CASE id = t1_ev_err_internal -> "internal error"
    [] id = t1_ev_err_serial_out -> "serial output error"
    [] id = t1_ev_err_comm_failure -> "smart card connection failed"
    [] id = t1_ev_err_atr_timeout -> "ATR timeout"
    [] id = t1_ev_err_bad_atr -> "incorrect ATR format"
    [] id = t1_ev_err_incompatible -> "incompatible card"
    [] id = t1_ev_err_oversized_apdu -> "received APDU does not fit in buffer"
    [] id = t1_ev_err_sc_abort -> "operation aborted by smart card"
    [] id = t1_ev_pps_failed -> "PPS exchange failed"
    [] OTHER -> "unknown error"

\* An exception leaves the function and its callers
Raise(s, text) == [s EXCEPT !.conn.raised = text]
Try(s, F(_)) == IF s.conn.raised # "" THEN s ELSE F(s)

scard_pin_write(s, pin, value) ==
  [s EXCEPT !.conn[pin] = value,
            !.conn.writes = Append(s.conn.writes, << pin, value >>)]

\* An event: the type and the keyword argument that an observer is called with
Event(type, n_kw, args) == [type |-> type, n_kw |-> n_kw, args |-> args]

\* An element of event_buf that was never written
NoEvent == Event("", 0, << >>)

\* create_event with more keyword arguments allowed than an event can hold
\* and without the limit of the buffer: the last element is written again
create_event_no_limit(s, ev) ==
  IF s.conn.observers > 0
    THEN LET at == Min(s.conn.event_idx + 1, CONN_MAX_EVENTS)
         IN  [s EXCEPT !.conn.event_buf[at] = ev,
                       !.conn.event_idx = at,
                       !.conn.queued = Append(@, ev),
                       !.conn.sched = @ + (IF at = 1 THEN 1 ELSE 0)]
    ELSE s

\* create_event; mp_sched_schedule adds a call of connection_notifyAll
create_event(s, ev) ==
  IF s.conn.event_idx + 1 > CONN_MAX_EVENTS \/ ev.n_kw > EVENT_MAX_KW
    THEN Raise(s, "event buffer overflow")
  ELSE IF s.conn.observers > 0
    THEN [s EXCEPT !.conn.event_buf[s.conn.event_idx + 1] = ev,
                   !.conn.event_idx = @ + 1,
                   !.conn.queued = Append(@, ev),
                   !.conn.sched = @ + (IF s.conn.event_idx + 1 = 1 THEN 1 ELSE 0)]
  ELSE s

notify_observers(s, event_type) == create_event(s, Event(event_type, 0, << >>))

notify_observers_text(s, event_type, text) == create_event(s, Event(event_type, 1, text))

notify_observers_response(s, response) == create_event(s, Event("response", 1, response))

\* connection_notifyAll calling the observers one after the other, each with
\* all events
connection_notifyAll_by_observer(s) ==
  LET n_events == s.conn.event_idx
      n_observers == s.conn.observers
  IN  [s EXCEPT !.conn.event_idx = 0,
                !.conn.queued = << >>,
                !.conn.seen = [k \in 1..(n_events * n_observers) |->
                                << ((k - 1) \div n_events) + 1,
                                   s.conn.event_buf[((k - 1) % n_events) + 1] >>]]

\* connection_notifyAll: the outer loop runs over the events of the buffer,
\* the inner loop over the observers; call k is for event (k-1) div n + 1 and
\* observer (k-1) mod n + 1 of n observers
connection_notifyAll(s) ==
  LET n_events == s.conn.event_idx
      n_observers == s.conn.observers
  IN  [s EXCEPT !.conn.event_idx = 0,
                !.conn.queued = << >>,
                !.conn.seen = [k \in 1..(n_events * n_observers) |->
                                << ((k - 1) % n_observers) + 1,
                                   s.conn.event_buf[((k - 1) \div n_observers) + 1] >>]]

\* A scheduled call of connection_notifyAll is run
run_scheduled(s) ==
  IF s.conn.sched > 0
    THEN connection_notifyAll([s EXCEPT !.conn.sched = @ - 1]) ELSE s

\* The memory of a protocol instance that is not allocated
NoInst == Leave(Enter(ZeroInst, TRUE))

\* connection_disconnect leaving a connection in error as it is
connection_disconnect_not_in_error(s) ==
  IF s.conn.state \notin { state_closed, state_disconnected, state_error }
    THEN LET s1 == IF s.conn.protocol # 0
                     THEN [s EXCEPT !.t1 = t1_reset(s.t1, FALSE)] ELSE s
             s2 == scard_pin_write(scard_pin_write(s1, "rst_pin", ACT), "pwr_pin", INACT)
         IN  notify_observers([s2 EXCEPT !.conn.state = state_disconnected], "disconnect")
    ELSE s

\* connection_disconnect acting in every state but closed
connection_disconnect_unless_closed(s) ==
  IF s.conn.state # state_closed
    THEN LET s1 == IF s.conn.protocol # 0
                     THEN [s EXCEPT !.t1 = t1_reset(s.t1, FALSE)] ELSE s
             s2 == scard_pin_write(scard_pin_write(s1, "rst_pin", ACT), "pwr_pin", INACT)
         IN  notify_observers([s2 EXCEPT !.conn.state = state_disconnected], "disconnect")
    ELSE s

connection_disconnect(s) ==
  IF s.conn.state # state_closed /\ s.conn.state # state_disconnected
    THEN LET s1 == IF s.conn.protocol # 0
                     THEN [s EXCEPT !.t1 = t1_reset(s.t1, FALSE)] ELSE s
             s2 == [s1 EXCEPT !.conn.atr = << >>, !.conn.response = << >>]
             s3 == scard_pin_write(scard_pin_write(s2, "rst_pin", ACT), "pwr_pin", INACT)
         IN  notify_observers([s3 EXCEPT !.conn.state = state_disconnected], "disconnect")
    ELSE s

\* proto_cb_handle_event; prm is the ATR, the APDU or the error text
proto_cb_handle_event(s, ev_code, prm) ==
  CASE ev_code = "atr_received" -> [s EXCEPT !.conn.atr = prm]
    [] ev_code = "connect" ->
         IF s.conn.state = state_connecting
           THEN notify_observers([s EXCEPT !.conn.state = state_connected], "connect")
           ELSE s
    [] ev_code = "apdu_received" ->
         IF s.conn.state = state_connected
           THEN Try(notify_observers_response(s, prm),
                    LAMBDA s1 : IF s1.conn.blocking
                                  THEN [s1 EXCEPT !.conn.response = prm] ELSE s1)
           ELSE s
    [] ev_code = "error" ->
         LET error(s1) ==
               Try(notify_observers_text([s1 EXCEPT !.conn.state = state_error],
                                         "error", prm),
                   LAMBDA s2 : IF s2.conn.raise_on_error \/ s2.conn.blocking
                                 THEN Raise([s2 EXCEPT !.conn.raise_on_error = FALSE], prm)
                                 ELSE s2)
         IN  Try(connection_disconnect(s), error)
    [] OTHER -> s

emit_error(s, text) == proto_cb_handle_event(s, "error", text)

\* t1_cb_handle_event for one event of the T=1 instance
t1_cb_handle_event(s, ev) ==
  IF is_error(ev) /\ ev.code # t1_ev_err_incompatible
    THEN emit_error(s, error_text(ev.code))
  ELSE IF ev.code = t1_ev_atr_received
    THEN proto_cb_handle_event(s, "atr_received", ev.prm)
  ELSE IF ev.code = t1_ev_err_incompatible
    THEN Try(proto_cb_handle_event(s, "atr_received", ev.prm),
             LAMBDA s1 : emit_error(s1, error_text(ev.code)))
  ELSE IF ev.code = t1_ev_connect
    THEN proto_cb_handle_event(s, "connect", << >>)
  ELSE IF ev.code = t1_ev_apdu_received
    THEN Try(proto_cb_handle_event(s, "apdu_received", ev.prm),
             LAMBDA s1 : proto_cb_handle_event(s1, "pps_exchange_done", << >>))
  ELSE IF ev.code = t1_ev_pps_exchange_done
    THEN proto_cb_handle_event(s, "pps_exchange_done", << >>)
  ELSE s

\* The callbacks of handle_events, in the order of the events: handle_event
\* has reset the instance and set its error state before the callback of an
\* error event, and an exception raised by a callback ends the API function
RECURSIVE dispatch_from(_, _, _)
dispatch_from(s, evs, k) ==
  IF k > Len(evs) \/ s.conn.raised # "" THEN s
  ELSE LET at_cb == IF is_error(evs[k])
                      THEN [s EXCEPT !.t1 = [t1_reset(s.t1, FALSE) EXCEPT
                                               !.fsm_state = t1_st_error]]
                      ELSE s
       IN  dispatch_from(t1_cb_handle_event(at_cb, evs[k]), evs, k + 1)

\* An API function of the T=1 instance, called through the wrapper
proto_call(s, post) ==
  dispatch_from([s EXCEPT !.t1 = Leave(Enter(post, TRUE))], post.evs, 1)

serial_in_t1(s, buf) ==
  IF s.conn.proto_handle THEN proto_call(s, t1_serial_in(s.t1, buf, TRUE)) ELSE s

timer_task_t1(s, elapsed_ms) ==
  IF s.conn.proto_handle THEN proto_call(s, t1_timer_task(s.t1, elapsed_ms, TRUE)) ELSE s

handle_card_presence_change(s, new_state) ==
  IF new_state # s.conn.presence_state
    THEN LET s1 == [s EXCEPT !.conn.presence_state = new_state]
             error(s3) ==
               Try(notify_observers_text([s3 EXCEPT !.conn.state = state_error],
                                         "error", "unexpected card removal"),
                   LAMBDA s4 : IF s4.conn.blocking
                                 THEN Raise(s4, "unexpected card removal")
                                 ELSE s4)
             removed(s2) ==
               IF s2.conn.state \in { state_connecting, state_connected }
                 THEN Try(connection_disconnect(s2), error)
                 ELSE s2
         IN  IF new_state
               THEN notify_observers(s1, "insertion")
               ELSE Try(notify_observers(s1, "removal"), removed)
    ELSE s

\* card_present: the connection afterwards; the result is presence_state
card_present(s) ==
  IF ~s.conn.timer \/ s.conn.presence_cycles < CARD_PRESENCE_CYCLES
    THEN handle_card_presence_change(s, s.conn.pres_pin = ACT)
    ELSE s

\* card_detection_task taking the pin state as valid in the cycle in which
\* the counter reaches the threshold
card_detection_task_at_threshold(s0) ==
  LET s == [s0 EXCEPT !.conn.sample = << s0.conn.pres_pin >>]
      state == s.conn.pres_pin = ACT
  IN  IF state
        THEN IF s.conn.presence_cycles + 1 >= CARD_PRESENCE_CYCLES
               THEN handle_card_presence_change(
                      [s EXCEPT !.conn.presence_cycles = CARD_PRESENCE_CYCLES], state)
               ELSE [s EXCEPT !.conn.presence_cycles = s.conn.presence_cycles + 1]
        ELSE handle_card_presence_change([s EXCEPT !.conn.presence_cycles = 0], state)

card_detection_task(s0) ==
  LET s == [s0 EXCEPT !.conn.sample = << s0.conn.pres_pin >>]
      state == s.conn.pres_pin = ACT
  IN  IF state
        THEN IF s.conn.presence_cycles >= CARD_PRESENCE_CYCLES
               THEN handle_card_presence_change(s, state)
               ELSE [s EXCEPT !.conn.presence_cycles = s.conn.presence_cycles + 1]
        ELSE handle_card_presence_change([s EXCEPT !.conn.presence_cycles = 0], state)

\* timer_task; elapsed is the time since the previous call
timer_task(s, elapsed) ==
  IF s.conn.state # state_closed
    THEN LET s1 == IF s.conn.state \in { state_connecting, state_connected }
                        /\ s.conn.protocol # 0
                     THEN timer_task_t1(s, elapsed) ELSE s
         IN  IF elapsed # 0 THEN Try(s1, LAMBDA x : card_detection_task(x)) ELSE s1
    ELSE s

cb_data_rx(s, buf) ==
  IF s.conn.state \in { state_connecting, state_connected } /\ s.conn.protocol # 0
    THEN serial_in_t1(s, buf) ELSE s

proto_get_implementation(protocol) ==
  IF BitAnd(protocol, T1_protocol) # 0 THEN T1_protocol ELSE 0

change_protocol(s, protocol_id, reset_if_same, wait_atr) ==
  LET protocol == proto_get_implementation(protocol_id)
  IN  IF protocol = 0
        THEN Raise(s, "protocol not supported")
      ELSE IF s.conn.proto_handle /\ protocol = s.conn.protocol
        THEN IF reset_if_same
               THEN [s EXCEPT !.t1 = t1_reset(s.t1, wait_atr)] ELSE s
      ELSE LET i1 == Leave(Enter(t1_init(ZeroInst), TRUE))
           IN  [s EXCEPT !.conn.protocol = protocol,
                         !.conn.proto_handle = TRUE,
                         !.conn.raise_on_error = FALSE,
                         !.t1 = IF wait_atr THEN i1 ELSE t1_reset(i1, FALSE)]

\* connection_connect refusing every state but disconnected
connection_connect_disconnected_only(s, protocol) ==
  IF s.conn.state = state_closed
    THEN Raise(s, "connection is closed")
  ELSE IF s.conn.state \in { state_connecting, state_connected }
    THEN Raise(s, "already connected")
  ELSE IF s.conn.state = state_error
    THEN Raise(s, "connection failed")
  ELSE [s EXCEPT !.conn.next_protocol = protocol_na]

\* connection_connect up to the blocking wait; protocol_na stands for no
\* argument
connection_connect(s, protocol) ==
  IF s.conn.state = state_closed
    THEN Raise(s, "connection is closed")
  ELSE IF s.conn.state \in { state_connecting, state_connected }
    THEN Raise(s, "already connected")
  ELSE LET np == IF protocol # protocol_na THEN protocol ELSE s.conn.next_protocol
           new_protocol == IF np = protocol_na THEN protocol_any ELSE np
           s1 == change_protocol([s EXCEPT !.conn.next_protocol = protocol_na],
                                 new_protocol, TRUE, TRUE)
           power(x) ==
             IF ~x.conn.presence_state
               THEN Raise(x, "no card inserted")
               ELSE LET x1 == scard_pin_write(
                                scard_pin_write(
                                  scard_pin_write(x, "rst_pin", ACT), "pwr_pin", ACT),
                                "rst_pin", INACT)
                    IN  [x1 EXCEPT !.conn.state = state_connecting,
                                   !.conn.pc = IF x1.conn.blocking
                                                 THEN "wait_connect" ELSE "api"]
       IN  Try(Try(s1, LAMBDA x : card_present(x)), power)

\* One pass of the loop of wait_connect_blocking, with the bytes read from
\* the interface; MICROPY_EVENT_POLL_HOOK runs the scheduled calls; the loop
\* ends when the state has changed or at an exception
wait_connect_blocking(s, buf, elapsed) ==
  LET s1 == Try(Try(serial_in_t1(s, buf), LAMBDA x : timer_task(x, elapsed)),
                run_scheduled)
  IN  IF s1.conn.raised # "" \/ s1.conn.state # state_connecting
        THEN [s1 EXCEPT !.conn.pc = "api"] ELSE s1

connection_setBlocking(s, blocking) ==
  IF ~blocking /\ ~s.conn.timer
    THEN Raise(s, "no timer for non-blocking operation")
    ELSE [s EXCEPT !.conn.blocking = blocking]

connection_setProtocol(s, protocol) == [s EXCEPT !.conn.next_protocol = protocol]

connection_addObserver(s) == [s EXCEPT !.conn.observers = @ + 1]

connection_deleteObservers(s) == [s EXCEPT !.conn.observers = 0]

connection_close(s) ==
  IF s.conn.state # state_closed
    THEN LET release(s1) ==
               [connection_deleteObservers(s1) EXCEPT
                  !.conn.timer = FALSE,
                  !.conn.reader = FALSE,
                  !.conn.proto_handle = FALSE,
                  !.conn.protocol = 0,
                  !.conn.state = state_closed,
                  !.t1 = NoInst]
         IN  Try(connection_disconnect(s), release)
    ELSE s

\* connection_make_new and connection_init
connection_make_new(timer, pres_pin) ==
  [conn |-> [state |-> state_disconnected, timer |-> timer, protocol |-> 0,
             proto_handle |-> FALSE, blocking |-> TRUE, raise_on_error |-> FALSE,
             atr |-> << >>, response |-> << >>, next_protocol |-> protocol_na,
             presence_cycles |-> 0, presence_state |-> FALSE,
             rst_pin |-> ACT, pwr_pin |-> INACT, pres_pin |-> pres_pin,
             writes |-> << >>, raised |-> "", pc |-> "api",
             observers |-> 0, event_buf |-> [k \in 1..CONN_MAX_EVENTS |-> NoEvent],
             event_idx |-> 0, sched |-> 0, seen |-> << >>, queued |-> << >>,
             sample |-> << >>, reader |-> TRUE],
   t1 |-> NoInst]


(***************************************************************************)
(* The connection under its API, the receive callback of the interface,     *)
(* the timer and the card presence pin                                      *)
(***************************************************************************)
\* Number of connect calls and of changes of the card presence pin; hist
\* counts them, and in active the calls of card_detection_task in a row that
\* read the presence pin as active, up to CARD_PRESENCE_CYCLES
MaxConnects == 2
MaxPinChanges == 1
ConnProtocols == { protocol_na, T0_protocol, T1_protocol }

\* What a powered card sends in the current state of the protocol instance:
\* its ATR once, the answer to the PPS request, the answer to S(IFS request)
ConnInputs(i) ==
  IF i.fsm_state = t1_st_wait_atr
    THEN IF i.rx_buf_idx = 0 THEN { AtrT1(16), AtrT0 } ELSE { }
  ELSE IF i.fsm_state = t1_st_pps_exchange
    THEN IF i.rx_buf_idx = 0 THEN { << PPSS, atr_prot_t1, 254 >> } ELSE { }
  ELSE IF i.fsm_state = t1_st_ifsd_setup
    THEN { CardSBlock(i, t1_sblock_cmd_ifs, TRUE, << IFS_MAX >>),
           CardSBlock(i, t1_sblock_cmd_abort, FALSE, << >>) }
  ELSE { }

\* The connection and its protocol instance
Self == [conn |-> conn, t1 |-> inst]

\* A call starts without pin writes, exception and calls of observers
Begin(s) ==
  [s EXCEPT !.conn.writes = << >>, !.conn.raised = "", !.conn.seen = << >>,
            !.conn.sample = << >>]

InitConn ==
  /\ \E timer \in BOOLEAN, pres_pin \in { INACT, ACT } :
       /\ conn = connection_make_new(timer, pres_pin).conn
       /\ call = Call("make_new", << timer, pres_pin >>, << >>)
  /\ inst = NoInst
  /\ nsteps = 0
  /\ hist = [connects |-> 0, pins |-> 0, active |-> 0]

ConnStep(op, arg, post) ==
  /\ UNCHANGED nsteps
  /\ hist' = [connects |-> hist.connects + (IF op = "connect" THEN 1 ELSE 0),
               pins |-> hist.pins + (IF op = "pin" THEN 1 ELSE 0),
               active |-> IF post.conn.sample = << ACT >>
                            THEN Min(hist.active + 1, CARD_PRESENCE_CYCLES)
                          ELSE IF post.conn.sample = << INACT >> THEN 0
                          ELSE hist.active]
  /\ conn' = post.conn
  /\ inst' = post.t1
  /\ call' = Call(op, arg, IF op = "connect" THEN Self ELSE [state |-> conn.state])

Connect(protocol) ==
  /\ conn.pc = "api"
  /\ hist.connects < MaxConnects
  /\ ConnStep("connect", protocol, connection_connect(Begin(Self), protocol))

\* A pass of the loop finds received bytes or finds that time has passed
WaitConnect(buf, elapsed) ==
  /\ conn.pc = "wait_connect"
  /\ (buf = << >>) # (elapsed = 0)
  /\ ConnStep("wait_connect", << buf, elapsed >>,
              wait_connect_blocking(Begin(Self), buf, elapsed))

Disconnect ==
  /\ conn.pc = "api"
  /\ ConnStep("disconnect", << >>, connection_disconnect(Begin(Self)))

Close ==
  /\ conn.pc = "api"
  /\ ConnStep("close", << >>, connection_close(Begin(Self)))

SetProtocol(protocol) ==
  /\ conn.pc = "api"
  /\ conn.state # state_closed
  /\ conn.next_protocol # protocol
  /\ ConnStep("setProtocol", protocol, connection_setProtocol(Begin(Self), protocol))

\* The host chooses the mode before its first connect
SetBlocking(blocking) ==
  /\ conn.pc = "api"
  /\ hist.connects = 0
  /\ conn.blocking # blocking
  /\ ConnStep("setBlocking", blocking, connection_setBlocking(Begin(Self), blocking))

\* The machine.Timer of the connection calls the connection object
TimerCall(elapsed) ==
  /\ conn.pc = "api"
  /\ conn.timer
  /\ ConnStep("call", elapsed, timer_task(Begin(Self), elapsed))

\* The UART callback of the interface delivers received bytes
DataRx(buf) ==
  /\ conn.pc = "api"
  /\ conn.pwr_pin = ACT
  /\ ConnStep("data_rx", buf, cb_data_rx(Begin(Self), buf))

\* The card is inserted or removed
PinChange ==
  /\ conn.state # state_closed
  /\ hist.pins < MaxPinChanges
  /\ ConnStep("pin", << >>,
              [Begin(Self) EXCEPT !.conn.pres_pin = ACT + INACT - conn.pres_pin])

NextConn ==
  \/ \E protocol \in ConnProtocols : Connect(protocol)
  \/ \E buf \in ConnInputs(inst) \cup { << >> }, elapsed \in { 0, TM_MAX } :
       WaitConnect(buf, elapsed)
  \/ Disconnect
  \/ Close
  \/ SetProtocol(T0_protocol)
  \/ \E blocking \in BOOLEAN : SetBlocking(blocking)
  \/ TimerCall(TM_MAX)
  \/ \E buf \in ConnInputs(inst) : DataRx(buf)
  \/ PinChange

SpecConn == InitConn /\ [][NextConn]_vars

\* The last call was connect, for a connection in one of the states
ConnectIn(states) == call.op = "connect" /\ call.pre.conn.state \in states

\* The last call raised, drove no pin and left the connection as it was
Refused ==
  /\ conn.raised # ""
  /\ conn.writes = << >>
  /\ [conn EXCEPT !.raised = ""] = Begin(call.pre).conn
  /\ inst = call.pre.t1

\* The last call applied power and released the reset of the card
Powered ==
  /\ conn.raised = ""
  /\ conn.writes = << << "rst_pin", ACT >>, << "pwr_pin", ACT >>, << "rst_pin", INACT >> >>
  /\ conn.rst_pin = INACT /\ conn.pwr_pin = ACT
  /\ conn.state = state_connecting

\* The protocol the last connect call asked for is implemented: its argument,
\* else the protocol set by setProtocol, else any protocol
Supported ==
  LET asked == IF call.arg # protocol_na THEN call.arg
               ELSE IF call.pre.conn.next_protocol # protocol_na
                      THEN call.pre.conn.next_protocol
               ELSE protocol_any
  IN  BitAnd(asked, T1_protocol) # 0

StepBy(ops) == conn.pc = "api" /\ call'.op \in ops

\* A connect call without protocol argument and without pending setProtocol
PlainConnect ==
  /\ call'.op = "connect"
  /\ call'.arg = protocol_na
  /\ conn.next_protocol = protocol_na

MaxObservers == 2

\* The host registers its observers when it has created the connection
AddObserver ==
  /\ conn.pc = "api"
  /\ conn.state # state_closed
  /\ call.op \in { "make_new", "addObserver" }
  /\ conn.observers < MaxObservers
  /\ ConnStep("addObserver", << >>, connection_addObserver(Begin(Self)))

\* The scheduler of the host runs the scheduled connection_notifyAll
NotifyAll ==
  /\ conn.pc = "api"
  /\ conn.sched > 0
  /\ ConnStep("notifyAll", << >>, run_scheduled(Begin(Self)))

\* What a powered T=1 card sends: its ATR once, the answer to the PPS request,
\* the answer to S(IFS request)
ObsInputs(i) == ConnInputs(i) \ { AtrT0, CardSBlock(i, t1_sblock_cmd_abort, FALSE, << >>) }

\* A connection with a timer
InitObs ==
  /\ \E pres_pin \in { INACT, ACT } :
       /\ conn = connection_make_new(TRUE, pres_pin).conn
       /\ call = Call("make_new", << TRUE, pres_pin >>, << >>)
  /\ inst = NoInst
  /\ nsteps = 0
  /\ hist = [connects |-> 0, pins |-> 0, active |-> 0]

NextObs ==
  \/ AddObserver
  \/ NotifyAll
  \/ Connect(protocol_na)
  \/ \E buf \in ObsInputs(inst) \cup { << >> }, elapsed \in { 0, TM_MAX } :
       WaitConnect(buf, elapsed)
  \/ Disconnect
  \/ Close
  \/ SetBlocking(FALSE)
  \/ TimerCall(TM_MAX)
  \/ \E buf \in ObsInputs(inst) : DataRx(buf)
  \/ PinChange

SpecObs == InitObs /\ [][NextObs]_vars

\* The calls of the observers for the events evs and n observers, in the order
\* of the events, all observers being called for an event before the next event
InEnqueueOrder(evs, n) ==
  [k \in 1..(Len(evs) * n) |-> << ((k - 1) % n) + 1, evs[((k - 1) \div n) + 1] >>]

\* The events that the calls of observer i brought it, in the order of the calls
SeenBy(i, seen) == SelectSeq(seen, LAMBDA c : c[1] = i)

\* C12: connection_notifyAll calls the observers in the order in which the
\* events were enqueued: every observer is called once for every event, each
\* observer gets the events in the order of the create_event calls, and all
\* observers are called for an event before any is called for the next.
C12_EnqueueOrder ==
  [][call'.op = "notifyAll" =>
       /\ conn'.seen = InEnqueueOrder(conn.queued, conn.observers)
       /\ \A i \in 1..conn.observers :
            SeenBy(i, conn'.seen) = [k \in 1..Len(conn.queued) |-> << i, conn.queued[k] >>]
       /\ conn'.event_idx = 0]_vars

\* Two observers were called for removal, disconnect and error, in this order
C12_Witness ==
  /\ call.op = "notifyAll"
  /\ conn.observers = 2
  /\ Len(conn.seen) = 6
  /\ conn.seen[1] = << 1, Event("removal", 0, << >>) >>
  /\ conn.seen[2] = << 2, Event("removal", 0, << >>) >>
  /\ conn.seen[3][2].type = "disconnect"
  /\ conn.seen[5] = << 1, Event("error", 1, "unexpected card removal") >>

\* The events in the buffer of connection c
Buffered(c) == SubSeq(c.event_buf, 1, c.event_idx)

\* C13: the event buffer never holds more than 4 events; an event for a full
\* buffer raises "event buffer overflow"; no call overwrites an event that is
\* in the buffer, whether it raises or not; and a call of connection_notifyAll
\* is scheduled exactly when an event is stored in the empty buffer, so that
\* one call is pending exactly while the buffer holds events.
C13_EventBuffer ==
  /\ [](/\ conn.event_idx <= CONN_MAX_EVENTS
        /\ conn.sched = (IF conn.event_idx > 0 THEN 1 ELSE 0)
        /\ conn.queued = Buffered(conn)
        /\ conn.raised = "event buffer overflow" => conn.event_idx = CONN_MAX_EVENTS)
  /\ [][/\ call'.op # "notifyAll" /\ conn'.event_idx > 0
             => SubSeq(conn'.event_buf, 1, conn.event_idx) = Buffered(conn)
        /\ (conn.event_idx = CONN_MAX_EVENTS /\ call'.op = "disconnect"
              /\ conn.state \notin { state_closed, state_disconnected })
             => /\ conn'.raised = "event buffer overflow"
                /\ conn'.event_buf = conn.event_buf
                /\ conn'.event_idx = CONN_MAX_EVENTS
        /\ call'.op \notin { "notifyAll", "wait_connect" }
             => (conn'.sched = conn.sched + 1
                   <=> (conn.event_idx = 0 /\ conn'.event_idx >= 1))
        /\ call'.op = "notifyAll" => conn'.sched = 0 /\ conn'.event_idx = 0]_vars

\* A timer call found the card removed with the buffer holding two events:
\* removal and disconnect were stored as third and fourth event, the error
\* event was refused
C13_Witness ==
  /\ call.op = "call"
  /\ conn.raised = "event buffer overflow"
  /\ conn.event_idx = CONN_MAX_EVENTS
  /\ conn.event_buf[3].type = "removal"
  /\ conn.event_buf[4].type = "disconnect"
  /\ conn.state = state_error

\* The next step is a timer task, called by the timer or in a pass of the
\* blocking wait loop, that finds the presence input inactive for a card known
\* as present and in use, the protocol raising no error on this call
RemovalFound ==
  /\ call'.op \in { "call", "wait_connect" }
  /\ conn.state \in { state_connecting, state_connected }
  /\ conn.presence_state /\ conn.pres_pin = INACT
  /\ LET elapsed == IF call'.op = "call" THEN call'.arg ELSE call'.arg[2]
         buf == IF call'.op = "call" THEN << >> ELSE call'.arg[1]
     IN  /\ elapsed # 0
         /\ buf = << >>
         /\ \A k \in DOMAIN t1_timer_task(inst, elapsed, TRUE).evs :
              ~is_error(t1_timer_task(inst, elapsed, TRUE).evs[k])

\* The events of an unexpected card removal
RemovalEvents ==
  << Event("removal", 0, << >>), Event("disconnect", 0, << >>),
     Event("error", 1, "unexpected card removal") >>

\* C14: when the timer task finds the presence input inactive for a connection
\* in state connecting or connected, the connection enqueues removal, resets
\* the protocol instance without waiting for an ATR, drives RST active and VCC
\* inactive, enqueues disconnect, ends in state error, enqueues the error
\* "unexpected card removal" as the last event, and raises in blocking mode.
C14_UnexpectedRemoval ==
  [][RemovalFound =>
       /\ conn'.state = state_error
       /\ ~conn'.presence_state
       /\ conn'.writes = << << "rst_pin", ACT >>, << "pwr_pin", INACT >> >>
       /\ conn'.rst_pin = ACT /\ conn'.pwr_pin = INACT
       /\ inst'.fsm_state = t1_st_idle /\ Core(inst') = Core(t1_reset(inst', FALSE))
       /\ conn.observers > 0 =>
            IF call'.op = "call"
              THEN conn'.queued = conn.queued \o RemovalEvents
              ELSE conn'.raised = "" => conn'.seen =
                     InEnqueueOrder(conn.queued \o RemovalEvents, conn.observers)
       /\ conn'.raised = IF conn.blocking THEN "unexpected card removal" ELSE ""]_vars

\* The timer task found the card removed while the event buffer was full: the
\* removal event was refused, the card is still powered and the connection
\* still connected
RemovalLost ==
  /\ call.op = "call"
  /\ conn.raised = "event buffer overflow"
  /\ conn.state = state_connected
  /\ ~conn.presence_state /\ conn.pres_pin = INACT
  /\ conn.pwr_pin = ACT /\ conn.rst_pin = INACT
  /\ conn.writes = << >>

\* The statement of C14 for an event buffer with room for three more events
RemovalWithRoom ==
  [][(RemovalFound /\ conn.event_idx + Len(RemovalEvents) <= CONN_MAX_EVENTS)
       => /\ conn'.state = state_error
          /\ ~conn'.presence_state
          /\ conn'.writes = << << "rst_pin", ACT >>, << "pwr_pin", INACT >> >>
          /\ inst'.fsm_state = t1_st_idle /\ Core(inst') = Core(t1_reset(inst', FALSE))
          /\ (conn.observers > 0 /\ call'.op = "call")
               => conn'.queued = conn.queued \o RemovalEvents
          /\ conn'.raised = IF conn.blocking THEN "unexpected card removal" ELSE ""]_vars

\* The next step runs the timer task: a call by the timer, or a pass of the
\* blocking wait loop
TimerPath == call'.op \in { "call", "wait_connect" }

\* C15: on the timer path the card becomes present, and insertion is
\* enqueued, only in a call of the timer task that reads the presence pin
\* active after 5 calls in a row have read it active, the presence counter
\* being 5; a call that reads the pin inactive sets the counter to 0 and the
\* card absent in the same call.  The counter is the number of calls in a row
\* that read the pin active, up to 5.
C15_Debounce ==
  /\ [](conn.presence_cycles = hist.active)
  /\ [][TimerPath =>
          /\ (~conn.presence_state /\ conn'.presence_state)
               => /\ conn'.sample = << ACT >>
                  /\ hist.active = CARD_PRESENCE_CYCLES
                  /\ conn.presence_cycles = CARD_PRESENCE_CYCLES
          /\ (conn'.queued # conn.queued /\ conn'.queued # << >>
                 /\ conn'.queued[Len(conn'.queued)].type = "insertion")
               => ~conn.presence_state /\ conn'.presence_state
          /\ (conn.observers > 0 /\ conn.event_idx < CONN_MAX_EVENTS
                 /\ ~conn.presence_state /\ conn'.presence_state)
               => conn'.queued = Append(conn.queued, Event("insertion", 0, << >>))
          /\ conn'.sample = << INACT >>
               => conn'.presence_cycles = 0 /\ ~conn'.presence_state
          /\ conn'.sample = << ACT >>
               => conn'.presence_cycles = Min(conn.presence_cycles + 1, CARD_PRESENCE_CYCLES)]_vars

\* The sixth call of the timer in a row that read the pin active made the
\* card present and enqueued insertion, no connect call having read the pin
C15_Witness ==
  /\ call.op = "call"
  /\ hist.connects = 0
  /\ hist.active = CARD_PRESENCE_CYCLES
  /\ conn.presence_state
  /\ conn.sample = << ACT >>
  /\ conn.queued = << Event("insertion", 0, << >>) >>

\* C16: a disconnect that follows a disconnect, and any disconnect of a
\* connection in state closed or disconnected, changes nothing in the
\* connection and its protocol instance, drives no pin, enqueues no event and
\* raises nothing.
C16_DisconnectIdempotent ==
  [][(call'.op = "disconnect"
        /\ (call.op = "disconnect" \/ conn.state \in { state_closed, state_disconnected }))
       => /\ conn' = Begin(Self).conn
          /\ inst' = inst
          /\ conn'.writes = << >>
          /\ conn'.raised = ""
          /\ conn'.event_idx = conn.event_idx /\ conn'.event_buf = conn.event_buf
          /\ conn'.sched = conn.sched]_vars

\* disconnect was called for a connection that a disconnect had left in state
\* disconnected, its disconnect event still in the buffer
C16_Witness ==
  /\ call.op = "disconnect"
  /\ call.pre.state = state_disconnected
  /\ conn.state = state_disconnected
  /\ conn.writes = << >>
  /\ conn.event_idx >= 1
  /\ conn.event_buf[conn.event_idx].type = "disconnect"
  /\ conn.proto_handle

(***************************************************************************)
(* The readers (reader.c, usbreader.c) and the connections they create.     *)
(* In this part the variable conn holds a reader with the connection        *)
(* objects created so far:                                                  *)
(*   reader  the reader object: its type and its field connection, the      *)
(*           number of a connection object or 0 for MP_OBJ_NULL             *)
(*   objs    the connection objects by number: a CardConnection as in the   *)
(*           parts above, or a UsbCardConnection with its fields state and  *)
(*           reader                                                         *)
(*   raised  the message of the exception of the current call               *)
(*   ret     the object returned by the current call                        *)
(***************************************************************************)
MaxConnections == 3

\* connection_make_new of usbconnection.c
usb_connection_make_new == [state |-> state_closed, reader |-> TRUE]

reader_createConnection(w) ==
  IF w.reader.connection # 0
    THEN [w EXCEPT !.raised = "too many connections"]
    ELSE LET id == Len(w.objs) + 1
         IN  [w EXCEPT !.objs = Append(@, connection_make_new(FALSE, INACT)),
                       !.reader.connection = id,
                       !.ret = id]

usbreader_createConnection(w) ==
  LET id == Len(w.objs) + 1
  IN  [w EXCEPT !.objs = Append(@, usb_connection_make_new),
                !.reader.connection = id,
                !.ret = id]

reader_deleteConnection(w, connection) ==
  IF w.reader.type = "Reader" /\ connection # 0 /\ w.reader.connection = connection
    THEN [w EXCEPT !.reader.connection = 0] ELSE w

usbreader_deleteConnection(w, connection) ==
  IF w.reader.type = "UsbReader" /\ connection # 0 /\ w.reader.connection = connection
    THEN [w EXCEPT !.reader.connection = 0] ELSE w

\* connection_close of connection.c for connection object id, with the call of
\* reader_deleteConnection
close_connection(w, id) ==
  LET s == Begin(w.objs[id])
      s1 == connection_close(s)
      w1 == [w EXCEPT !.objs[id] = s1, !.raised = s1.conn.raised]
  IN  IF s.conn.state # state_closed /\ s1.conn.raised = ""
        THEN reader_deleteConnection(w1, id) ELSE w1

\* connection_connect of usbconnection.c up to the power-on command; ready is
\* process_state = process_state_ready, present the result of card_present
usb_connection_connect(w, id, ready, present) ==
  IF ~ready THEN [w EXCEPT !.raised = "smart card reader is not connected"]
  ELSE IF ~present THEN [w EXCEPT !.raised = "no card inserted"]
  ELSE [w EXCEPT !.objs[id].state = state_connecting]

\* connection_disconnect of usbconnection.c
usb_connection_disconnect(w, id, ready, present) ==
  IF ~ready THEN [w EXCEPT !.raised = "smart card reader is not connected"]
  ELSE IF ~present THEN [w EXCEPT !.raised = "no card inserted"]
  ELSE [usbreader_deleteConnection(w, id) EXCEPT
          !.objs[id].reader = FALSE, !.objs[id].state = state_closed]

\* connection_close of usbconnection.c
usb_connection_close(w, id, ready, present) ==
  IF w.objs[id].state # state_closed
    THEN LET w1 == usb_connection_disconnect(w, id, ready, present)
         IN  IF w1.raised # "" THEN w1
             ELSE [usbreader_deleteConnection(w1, id) EXCEPT
                     !.objs[id].reader = FALSE, !.objs[id].state = state_closed]
    ELSE w

\* A call starts without exception and returned object
BeginReader(w) == [w EXCEPT !.raised = "", !.ret = 0]

\* hist.closed holds the connection objects whose close has returned
InitReader ==
  /\ \E type \in { "Reader", "UsbReader" } :
       /\ conn = [reader |-> [type |-> type, connection |-> 0],
                  objs |-> << >>, raised |-> "", ret |-> 0]
       /\ call = Call("make_new", type, << >>)
  /\ inst = NoInst
  /\ nsteps = 0
  /\ hist = [closed |-> { }]

ReaderStep(op, arg, post, closed) ==
  /\ UNCHANGED << inst, nsteps >>
  /\ conn' = post
  /\ hist' = [closed |-> IF post.raised = "" THEN hist.closed \cup closed ELSE hist.closed]
  /\ call' = Call(op, arg, << >>)

CreateConnection ==
  /\ Len(conn.objs) < MaxConnections
  /\ ReaderStep("createConnection", << >>,
                IF conn.reader.type = "Reader"
                  THEN reader_createConnection(BeginReader(conn))
                  ELSE usbreader_createConnection(BeginReader(conn)), { })

CloseConnection(id) ==
  /\ conn.reader.type = "Reader"
  /\ ReaderStep("close", id, close_connection(BeginReader(conn), id), { id })

\* connect and disconnect of a CardConnection without card
CardConnect(id) ==
  /\ conn.reader.type = "Reader"
  /\ LET s == connection_connect(Begin(conn.objs[id]), protocol_na)
     IN  ReaderStep("connect", id,
                    [BeginReader(conn) EXCEPT !.objs[id] = s, !.raised = s.conn.raised],
                    { })

UsbConnect(id, ready, present) ==
  /\ conn.reader.type = "UsbReader"
  /\ ReaderStep("connect", << id, ready, present >>,
                usb_connection_connect(BeginReader(conn), id, ready, present), { })

UsbDisconnect(id, ready, present) ==
  /\ conn.reader.type = "UsbReader"
  /\ ReaderStep("disconnect", << id, ready, present >>,
                usb_connection_disconnect(BeginReader(conn), id, ready, present), { })

UsbClose(id, ready, present) ==
  /\ conn.reader.type = "UsbReader"
  /\ ReaderStep("close", << id, ready, present >>,
                usb_connection_close(BeginReader(conn), id, ready, present), { id })

NextReader ==
  \/ CreateConnection
  \/ \E id \in DOMAIN conn.objs : CloseConnection(id)
  \/ \E id \in DOMAIN conn.objs : CardConnect(id)
  \/ \E id \in DOMAIN conn.objs, ready, present \in BOOLEAN : UsbConnect(id, ready, present)
  \/ \E id \in DOMAIN conn.objs, ready, present \in BOOLEAN : UsbDisconnect(id, ready, present)
  \/ \E id \in DOMAIN conn.objs, ready, present \in BOOLEAN : UsbClose(id, ready, present)

SpecReader == InitReader /\ [][NextReader]_vars

\* The next step is a createConnection call; some connection object that the
\* reader created has not been closed
CreateWhileOpen ==
  /\ call'.op = "createConnection"
  /\ \E id \in DOMAIN conn.objs : id \notin hist.closed

\* C17: createConnection fails, creating nothing, while a connection that the
\* reader created has not been closed, and succeeds when every connection it
\* created has been closed; for the Reader and for the UsbReader.
C17_OneConnection ==
  [][call'.op = "createConnection" =>
       IF CreateWhileOpen
         THEN conn'.raised # "" /\ conn'.objs = conn.objs
         ELSE /\ conn'.raised = ""
              /\ Len(conn'.objs) = Len(conn.objs) + 1
              /\ conn'.reader.connection = Len(conn'.objs)]_vars

\* The statement of C17 for the Reader alone
ReaderOneConnection ==
  [][(call'.op = "createConnection" /\ conn.reader.type = "Reader") =>
       IF CreateWhileOpen
         THEN /\ conn'.raised = "too many connections"
              /\ conn'.objs = conn.objs /\ conn'.reader = conn.reader
         ELSE /\ conn'.raised = ""
              /\ Len(conn'.objs) = Len(conn.objs) + 1
              /\ conn'.reader.connection = Len(conn'.objs)]_vars

\* A UsbReader has created a second connection while its first one was
\* connecting; it refers to the second only
TwoUsbConnections ==
  /\ call.op = "createConnection"
  /\ conn.reader.type = "UsbReader"
  /\ conn.raised = ""
  /\ Len(conn.objs) = 2
  /\ conn.objs[1].state = state_connecting /\ conn.objs[1].reader
  /\ conn.reader.connection = 2

(***************************************************************************)
(* The engine behind the wrapper of protocols.c, on an interface whose      *)
(* writes may fail                                                          *)
(***************************************************************************)
\* Number of API calls after t1_reset
MaxTxSteps == 3

\* Results of the writes of one API call: of the first write, and of all
\* further writes
HwResults == { << TRUE >>, << FALSE >>, << FALSE, TRUE >>, << TRUE, FALSE >> }

\* The result of write j of a call
StatusAt(hw, j) == hw[Min(j, Len(hw))]

\* The number of failed writes in a row, fails before a call, after writes
\* j..n of the call
RECURSIVE FailsAfter(_, _, _, _)
FailsAfter(fails, hw, j, n) ==
  IF j > n THEN fails
  ELSE FailsAfter(IF StatusAt(hw, j) THEN 0 ELSE fails + 1, hw, j + 1, n)

\* An engine in idle behind the wrapper; hist.fails is the number of writes to
\* the interface in a row that have failed, hist.hw the results of the writes
\* of the last call
InitTx ==
  /\ inst = Leave(Enter(t1_reset(NewInst, FALSE), TRUE))
  /\ call = Call("reset", FALSE, Leave(NewInst))
  /\ nsteps = 0
  /\ hist = [fails |-> 0, hw |-> << TRUE >>]
  /\ conn = << >>

TxStep(op, arg, hw, post) ==
  /\ nsteps < MaxTxSteps
  /\ nsteps' = nsteps + 1
  /\ inst' = Leave(post)
  /\ call' = Call(op, arg, inst)
  /\ hist' = [fails |-> FailsAfter(hist.fails, hw, 1, Len(post.out)), hw |-> hw]
  /\ UNCHANGED conn

TxTransmitApdu(apdu, hw) ==
  TxStep("transmit_apdu", apdu, hw,
         t1_transmit_apdu([inst EXCEPT !.hw = hw], apdu, TRUE))

TxSerialIn(buf, hw) ==
  TxStep("serial_in", buf, hw, t1_serial_in([inst EXCEPT !.hw = hw], buf, TRUE))

TxTimerTask(elapsed_ms, hw) ==
  TxStep("timer_task", elapsed_ms, hw,
         t1_timer_task([inst EXCEPT !.hw = hw], elapsed_ms, TRUE))

\* reset_t1 after an error; the handle keeps its tx_errors
TxReset ==
  /\ t1_has_error(inst)
  /\ TxStep("reset", FALSE, << TRUE >>, Enter(t1_reset(inst, FALSE), TRUE))

NextTx ==
  \/ \E hw \in HwResults : \E apdu \in ApduSet : TxTransmitApdu(apdu, hw)
  \/ \E hw \in HwResults : \E buf \in SerialInputs(inst) : TxSerialIn(buf, hw)
  \/ \E hw \in HwResults : TxTimerTask(TM_MAX, hw)
  \/ TxReset

SpecTx == InitTx /\ [][NextTx]_vars

\* The last call with every write to the interface successful
AllWritten ==
  LET pre == [call.pre EXCEPT !.hw = << TRUE >>]
  IN  CASE call.op = "transmit_apdu" -> t1_transmit_apdu(pre, call.arg, TRUE)
        [] call.op = "serial_in" -> t1_serial_in(pre, call.arg, TRUE)
        [] call.op = "timer_task" -> t1_timer_task(pre, call.arg, TRUE)
        [] OTHER -> Enter(t1_reset(pre, FALSE), TRUE)

\* The last call has raised the error event serial_out
SerialOutError ==
  \E k \in DOMAIN inst.evs : inst.evs[k].code = t1_ev_err_serial_out

\* The last write of the last call failed as the third or a later one in a row
ThirdFailure ==
  /\ inst.out # << >>
  /\ ~StatusAt(hist.hw, Len(inst.out))
  /\ hist.fails > MAX_TX_ERRORS_T1

\* C18: the wrapper reports to the engine the first and the second failed
\* write in a row as successful, and a failed write as failed when two or more
\* failed writes precede it in a row; then the engine raises the error event
\* serial_out and enters error.  A successful write sets the count of failures
\* to 0.  Until then the engine acts as if every write had succeeded.
C18_TxTolerance ==
  LET all == AllWritten
  IN  /\ inst.tx_errors = Min(hist.fails, MAX_TX_ERRORS_T1)
      /\ SerialOutError <=> ThirdFailure
      /\ SerialOutError => t1_has_error(inst)
      /\ (inst.out # << >> /\ StatusAt(hist.hw, Len(inst.out))) => inst.tx_errors = 0
      /\ ~ThirdFailure
           => /\ [Core(inst) EXCEPT !.tx_errors = 0] = [Core(Leave(all)) EXCEPT !.tx_errors = 0]
              /\ inst.out = all.out
              /\ inst.evs = all.evs

\* The third failed write in a row has put the engine into error, the two
\* before it having gone unnoticed
C18_Witness ==
  /\ call.op = "serial_in"
  /\ call.pre.tx_errors = MAX_TX_ERRORS_T1
  /\ call.pre.fsm_state = t1_st_wait_response
  /\ hist.fails = MAX_TX_ERRORS_T1 + 1
  /\ SerialOutError
  /\ t1_has_error(inst)

(***************************************************************************)
(* The ATR of a card without T=1                                            *)
(***************************************************************************)
\* The last call was a t1_timer_task that found the engine in wait_atr with
\* the ATR 3B 90 11 00 received, and in which the interbyte timer expired
\* (timer_elapsed reports no timer expired in the first call after its start)
AtrT0TimedOut ==
  /\ call.op = "timer_task"
  /\ call.pre.fsm_state = t1_st_wait_atr
  /\ call.pre.rx_buf_idx = Len(AtrT0)
  /\ \A k \in 1..Len(AtrT0) : call.pre.rx_buf[k - 1] = AtrT0[k]
  /\ timer_elapsed(call.pre.tmr_interbyte_timeout, call.arg).elapsed

EventCodes(i) == [k \in DOMAIN i.evs |-> i.evs[k].code]

\* C19 as stated: after reset with wait_atr, the ATR 3B 90 11 00 and the
\* expiry of the interbyte timer the engine emits the error event bad_atr and
\* enters error.
C19_BadAtr ==
  AtrT0TimedOut
    => /\ \E k \in DOMAIN inst.evs : inst.evs[k].code = t1_ev_err_bad_atr
       /\ t1_has_error(inst)

\* C19: after reset with wait_atr, the ATR 3B 90 11 00 and the expiry of the
\* interbyte timer the engine emits exactly one event, the error event
\* incompatible with the ATR as its parameter, and enters error; parse_atr
\* accepts this ATR and finds no T=1 in it.
C19_Incompatible ==
  AtrT0TimedOut
    => /\ EventCodes(inst) = << t1_ev_err_incompatible >>
       /\ inst.evs[1].prm = AtrT0
       /\ t1_has_error(inst)
       /\ LET p == parse_atr(call.pre.rx_buf, call.pre.rx_buf_idx)
          IN  p.ok /\ ~p.atr.t1_supported

C19_Witness ==
  /\ AtrT0TimedOut
  /\ EventCodes(inst) = << t1_ev_err_incompatible >>
  /\ t1_has_error(inst)

(***************************************************************************)
(* The FIFO of fifo_buf.h under its API                                     *)
(***************************************************************************)
\* Largest number of elements of the memory buffer of a FIFO
MaxNelem == 3
\* Bytes pushed
FifoBytes == { 7, 9 }

\* Byte strings of length 1..n over FifoBytes
FifoBufs(n) == UNION { [1..k -> FifoBytes] : k \in 1..n }

\* A caller of the FIFO: the FIFO, the caller's read index (fifo_read's
\* p_read_idx) and the bytes the last call returned
FifoWorld(fifo, read_idx, got) == [fifo |-> fifo, got |-> got, read_idx |-> read_idx]

Fifo == conn.fifo

InitFifo ==
  /\ \E nelem \in 1..MaxNelem :
       conn = FifoWorld(fifo_init([i \in 0..(nelem - 1) |-> 0], nelem), 0, << >>)
  /\ call = Call("fifo_init", << >>, << >>)
  /\ inst = << >>
  /\ hist = << >>
  /\ nsteps = 0

FifoStep(op, arg, world) ==
  /\ conn' = world
  /\ call' = Call(op, arg, Fifo)
  /\ UNCHANGED << inst, hist, nsteps >>

FifoInit(nelem) ==
  FifoStep("fifo_init", nelem,
           FifoWorld(fifo_init([i \in 0..(nelem - 1) |-> 0], nelem), 0, << >>))

FifoClear ==
  FifoStep("fifo_clear", << >>, FifoWorld(fifo_clear(Fifo), conn.read_idx, << >>))

\* push within the free space
FifoPush(byte) ==
  /\ fifo_nfree(Fifo) >= 1
  /\ FifoStep("fifo_push", byte, FifoWorld(fifo_push(Fifo, byte), conn.read_idx, << >>))

FifoPushBuf(buf) ==
  /\ Len(buf) <= fifo_nfree(Fifo)
  /\ FifoStep("fifo_push_buf", buf, FifoWorld(fifo_push_buf(Fifo, buf), conn.read_idx, << >>))

\* fifo_pop does not look at the fill level
FifoPop ==
  LET r == fifo_pop(Fifo)
  IN  FifoStep("fifo_pop", << >>, FifoWorld(r.fifo, conn.read_idx, << r.byte >>))

FifoPopBuf(dst_size, nbytes) ==
  LET r == fifo_pop_buf(Fifo, dst_size, nbytes)
  IN  FifoStep("fifo_pop_buf", << dst_size, nbytes >>,
               FifoWorld(r.fifo, conn.read_idx, r.bytes))

FifoGetReadIdx ==
  FifoStep("fifo_get_read_idx", << >>, FifoWorld(Fifo, fifo_get_read_idx(Fifo), << >>))

\* The read index comes from this FIFO
FifoRead ==
  /\ conn.read_idx < Fifo.nelem
  /\ LET r == fifo_read(Fifo, conn.read_idx)
     IN  FifoStep("fifo_read", conn.read_idx, FifoWorld(Fifo, r.idx, << r.byte >>))

FifoReadBuf(dst_size, nbytes) ==
  /\ conn.read_idx < Fifo.nelem
  /\ LET r == fifo_read_buf(Fifo, conn.read_idx, dst_size, nbytes)
     IN  FifoStep("fifo_read_buf", << conn.read_idx, dst_size, nbytes >>,
                  FifoWorld(Fifo, r.idx, r.bytes))

\* remove of at most the used bytes
FifoRemove(nbytes) ==
  /\ nbytes <= fifo_nused(Fifo)
  /\ FifoStep("fifo_remove", nbytes, FifoWorld(fifo_remove(Fifo, nbytes), conn.read_idx, << >>))

NextFifo ==
  \/ \E nelem \in 1..MaxNelem : FifoInit(nelem)
  \/ FifoClear
  \/ \E byte \in FifoBytes : FifoPush(byte)
  \/ \E buf \in FifoBufs(MaxNelem - 1) : FifoPushBuf(buf)
  \/ FifoPop
  \/ \E dst_size, nbytes \in 0..MaxNelem : FifoPopBuf(dst_size, nbytes)
  \/ FifoGetReadIdx
  \/ FifoRead
  \/ \E dst_size, nbytes \in 0..MaxNelem : FifoReadBuf(dst_size, nbytes)
  \/ \E nbytes \in 0..MaxNelem : FifoRemove(nbytes)

SpecFifo == InitFifo /\ [][NextFifo]_vars

CursorOps == { "fifo_get_read_idx", "fifo_read", "fifo_read_buf" }

FifoShape ==
  /\ fifo_nfree(Fifo) + fifo_nused(Fifo) + 1 = Fifo.nelem
  /\ Fifo.head < Fifo.nelem
  /\ Fifo.tail < Fifo.nelem

\* C20: in every FIFO state reached by init, clear, push within the free
\* space, pop, reads with a read index and remove of at most the used bytes,
\* fifo_nfree + fifo_nused + 1 is the capacity and head and tail are below the
\* capacity; the reads with a read index change neither head nor tail.
C20_FifoInvariant ==
  /\ []FifoShape
  /\ [][call'.op \in CursorOps
          => /\ conn'.fifo = conn.fifo
             /\ call'.pre = conn.fifo]_vars

\* A FIFO whose head has wrapped, read with a read index that wrapped too
C20_Witness ==
  /\ call.op = "fifo_read_buf"
  /\ Fifo.head < Fifo.tail
  /\ fifo_nused(Fifo) >= 2
  /\ conn.read_idx < call.arg[1]
  /\ Len(conn.got) >= 2

(***************************************************************************)
(* Error detection codes: calc_lrc and calc_crc against their definitions,  *)
(* and the check of the code of a received block                            *)
(***************************************************************************)
\* Number of blocks the card sends
MaxEdcSteps == 2

\* Bytes of the longer inputs
EdcBytes == { 0, 1, 165, UINT8_MAX }

\* The inputs of the codes: every single byte (which makes calc_crc use every
\* entry of crc_tbl), and the strings of 2 and 3 bytes over EdcBytes
EdcInputs == [1..1 -> 0..UINT8_MAX] \cup [1..2 -> EdcBytes] \cup [1..3 -> EdcBytes]

\* The inputs the card also sends as the INF field of a block
EdcInfs == [1..2 -> EdcBytes]

\* Masks that damage one byte of a code on the line; 0 leaves it as it is
EdcMasks == { 0, 1, 128 }

\* XOR of all bytes, from the left
RECURSIVE XorReduce(_)
XorReduce(xs) == IF xs = << >> THEN 0 ELSE BitXor(Head(xs), XorReduce(Tail(xs)))

\* CRC-CCITT bit by bit, with the reflected polynomial 0x8408: one shift
CrcShift(crc) == IF crc % 2 = 1 THEN BitXor(crc \div 2, 33800) ELSE crc \div 2

RECURSIVE CrcShifts(_, _)
CrcShifts(crc, n) ==
  IF n = 0 THEN crc ELSE Strict(CrcShift(crc), LAMBDA c : CrcShifts(c, n - 1))

\* The register after the bytes xs, from the seed 0xFFFF
RECURSIVE CrcRegister(_)
CrcRegister(xs) ==
  IF xs = << >> THEN 65535
  ELSE Strict(CrcRegister(SubSeq(xs, 1, Len(xs) - 1)),
              LAMBDA crc : Strict(BitXor(crc, xs[Len(xs)]), LAMBDA c : CrcShifts(c, 8)))

\* The reference code, high byte first
CrcReference(xs) == Strict(CrcRegister(xs), LAMBDA crc : << crc \div 256, crc % 256 >>)

\* The reference code of the configuration of the engine
EdcReference(i, xs) == IF i.config.use_crc # 0 THEN CrcReference(xs) ELSE << XorReduce(xs) >>

\* hist: the input src and the codes the program has computed for it; the
\* engine has sent an I-block and awaits the response
InitEdc ==
  /\ \E use_crc \in 0..1 :
       inst = Leave(t1_transmit_apdu(
                      Leave(Enter(t1_reset(t1_set_config(NewInst, "use_crc", use_crc), FALSE), TRUE)),
                      << 0, 164, 4, 0 >>, TRUE))
  /\ \E src \in EdcInputs : hist = [src |-> src, lrc |-> << >>, crc |-> << >>]
  /\ call = Call("transmit_apdu", << 0, 164, 4, 0 >>, Leave(NewInst))
  /\ nsteps = 0
  /\ conn = << >>

\* calc_lrc and calc_crc over src
EdcCalc ==
  /\ hist.lrc = << >>
  /\ hist' = [hist EXCEPT !.lrc = calc_lrc(hist.src), !.crc = calc_crc(hist.src)]
  /\ call' = Call("calc_edc", hist.src, inst)
  /\ UNCHANGED << inst, nsteps, conn >>

\* The card sends an I-block with INF = src, more or not, whose code has the
\* byte at pos damaged by mask
EdcReceive(more, pos, mask) ==
  /\ nsteps < MaxEdcSteps
  /\ hist.lrc # << >>
  /\ hist.src \in EdcInfs
  /\ inst.fsm_state = t1_st_wait_response
  /\ pos <= edc_size(inst)
  /\ LET good == CardIBlock(inst, inst.rx_seq_number, more, hist.src)
         at == Len(good) - edc_size(inst) + pos
         block == [good EXCEPT ![at] = BitXor(good[at], mask)]
     IN  /\ inst' = Leave(t1_serial_in(inst, block, TRUE))
         /\ call' = Call("serial_in", block, inst)
  /\ nsteps' = nsteps + 1
  /\ UNCHANGED << hist, conn >>

NextEdc ==
  \/ EdcCalc
  \/ \E more \in BOOLEAN : \E pos \in 1..CRC_SIZE : \E mask \in EdcMasks :
       EdcReceive(more, pos, mask)

SpecEdc == InitEdc /\ [][NextEdc]_vars

\* The block of the last call: what precedes the code, and the code
RxChecked == SubSeq(call.arg, 1, Len(call.arg) - edc_size(call.pre))
RxCode == SubSeq(call.arg, Len(call.arg) - edc_size(call.pre) + 1, Len(call.arg))

BlockReceived == call.op = "serial_in" /\ call.pre.fsm_state = t1_st_wait_response

\* The reply of handle_bad_block to a block with a wrong code
EdcErrorReply ==
  /\ Flatten(inst.out) = CardRBlock(inst, call.pre.rx_seq_number, t1_rblock_ack_err_edc)
  /\ inst.tx_attempts = call.pre.tx_attempts + 1
  /\ inst.rx_bad_block
  /\ inst.evs = << >>
  /\ inst.fsm_state = t1_st_wait_response
  /\ RxUnchanged

\* The I-block has been handled by handle_iblock: its INF is stored, the
\* N(S) expected next has changed
IBlockDispatched ==
  /\ ~inst.rx_bad_block
  /\ inst.rx_seq_number = 1 - call.pre.rx_seq_number
  /\ inst.tx_attempts = 0

\* C21: calc_lrc is the XOR of all bytes, calc_crc the CRC-CCITT with the
\* reflected polynomial from the seed 0xFFFF, high byte first; a received block
\* is dispatched only if the code at its end is the code of its prologue and
\* INF, and is otherwise a bad block answered with R(err_edc).
C21_Edc ==
  /\ hist.lrc # << >> => /\ hist.lrc = << XorReduce(hist.src) >>
                         /\ hist.crc = CrcReference(hist.src)
  /\ BlockReceived
       => IF RxCode = EdcReference(call.pre, RxChecked)
            THEN IBlockDispatched
            ELSE EdcErrorReply

\* A block with a CRC whose second byte is damaged has been answered with
\* R(err_edc)
C21_Witness ==
  /\ BlockReceived
  /\ call.pre.config.use_crc = 1
  /\ RxCode[1] = CrcReference(RxChecked)[1]
  /\ RxCode[2] # CrcReference(RxChecked)[2]
  /\ EdcErrorReply

\* A block with the right CRC has been dispatched
EdcAccepted ==
  /\ BlockReceived
  /\ call.pre.config.use_crc = 1
  /\ RxCode = CrcReference(RxChecked)
  /\ IBlockDispatched

(***************************************************************************)
(* Bad, unexpected and missing blocks: handle_bad_block                     *)
(***************************************************************************)
\* Number of requests of the card the engine accepts in one scenario
MaxGood == 1

\* What the card does wrong, and the R-block code handle_bad_block is called
\* with: a damaged EDC, an I-block with the wrong N(S), an R-block that
\* acknowledges nothing, an S(RESYNCH response) nobody asked for, a LEN byte of
\* 255, and no block at all until the response timer expires
BadKinds == { "edc", "seq", "rblock", "sblock", "len", "tick" }

BadAck(kind) == IF kind = "edc" THEN t1_rblock_ack_err_edc ELSE t1_rblock_ack_err_other

BadBytes(i, kind) ==
  CASE kind = "edc" -> Corrupt(CardIBlock(i, i.rx_seq_number, FALSE, RespInf))
    [] kind = "seq" -> CardIBlock(i, 1 - i.rx_seq_number, FALSE, RespInf)
    [] kind = "rblock" -> CardRBlock(i, i.tx_seq_number, t1_rblock_ack_ok)
    [] kind = "sblock" -> CardSBlock(i, t1_sblock_cmd_resynch, TRUE, << >>)
    [] kind = "len" -> << 0, 0, UINT8_MAX >>
    [] OTHER -> << >>

\* The I- and S-blocks among the blocks of one call's output
SentIS(i) ==
  Cardinality({ k \in DOMAIN i.out :
                  BitAnd(i.out[k][2], PCB_MARKER_MASK) # RB_MARKER })

\* The S(RESYNCH request) blocks among them
SentResynch(i) == Cardinality({ k \in DOMAIN i.out : i.out[k] = ResynchRequest(i) })

\* hist: run    bad blocks in a row outside resync
\*       sent   I- and S-blocks transmitted since t1_reset
\*       rsy    S(RESYNCH request) blocks sent since resync was entered
\*       good   requests of the card accepted
InitBad ==
  /\ inst = Leave(Enter(t1_reset(NewInst, FALSE), TRUE))
  /\ call = Call("reset", FALSE, Leave(NewInst))
  /\ nsteps = 0
  /\ hist = [run |-> 0, sent |-> 0, rsy |-> 0, good |-> 0]
  /\ conn = << >>

BadStep(op, arg, post, run) ==
  /\ inst' = Leave(post)
  /\ call' = Call(op, arg, inst)
  /\ hist' = IF t1_has_error(post)
               THEN [hist EXCEPT !.run = run]
               ELSE [hist EXCEPT !.run = run,
                                 !.sent = hist.sent + SentIS(post),
                                 !.rsy = IF post.fsm_state = t1_st_resync
                                           THEN hist.rsy + SentResynch(post) ELSE 0,
                                 !.good = IF op \in { "card_ifs", "card_reply" } THEN hist.good + 1 ELSE hist.good]
  /\ UNCHANGED << nsteps, conn >>

BadTransmit ==
  /\ inst.fsm_state = t1_st_idle
  /\ \E apdu \in ApduSet :
       BadStep("transmit_apdu", apdu, t1_transmit_apdu(inst, apdu, TRUE), 0)

\* The card sends a block the engine cannot use
BadBlock(kind) ==
  /\ kind # "tick"
  /\ inst.fsm_state \in { t1_st_wait_response, t1_st_resync }
  /\ ~(kind = "sblock" /\ inst.fsm_state = t1_st_resync)
  /\ BadStep("bad", [kind |-> kind, ack |-> BadAck(kind), elapsed_ms |-> 0],
             t1_serial_in(inst, BadBytes(inst, kind), TRUE), hist.run + 1)

\* The card sends nothing: t1_timer_task; a timer expires in the second or a
\* later call after it was armed
BadTick(elapsed_ms) ==
  /\ inst.fsm_state \in { t1_st_wait_response, t1_st_resync }
  /\ BadStep("bad", [kind |-> "tick", ack |-> BadAck("tick"), elapsed_ms |-> elapsed_ms],
             t1_timer_task(inst, elapsed_ms, TRUE),
             IF timer_elapsed(inst.tmr_response_timeout, elapsed_ms).elapsed
               THEN hist.run + 1 ELSE hist.run)

\* The card asks for another IFSC before anything goes wrong: the engine
\* answers with S(IFS response)
CardIfs ==
  /\ inst.fsm_state = t1_st_wait_response
  /\ hist.good < MaxGood
  /\ hist.run = 0
  /\ \E ifsc \in { IFS_MAX } :
       BadStep("card_ifs", ifsc,
               t1_serial_in(inst, CardSBlock(inst, t1_sblock_cmd_ifs, FALSE, << ifsc >>), TRUE), 0)

NextBad ==
  \/ BadTransmit
  \/ \E kind \in BadKinds : BadBlock(kind)
  \/ BadTick(TM_MAX)
  \/ CardIfs

SpecBad == InitBad /\ [][NextBad]_vars

\* The last call ran handle_bad_block outside resync
BadOutsideResync ==
  /\ call.op = "bad"
  /\ call.pre.fsm_state = t1_st_wait_response
  /\ call.arg.kind = "tick"
       => timer_elapsed(call.pre.tmr_response_timeout, call.arg.elapsed_ms).elapsed

\* C22: outside resync a bad, unexpected or missing block is answered with
\* R(ack_code, rx_seq_number) and counted in tx_attempts while tx_attempts + 1
\* < DELIVERY_ATTEMPTS; the next one raises comm_failure if tx_block_ctr <= 1,
\* that is if at most one I- or S-block has been transmitted since t1_reset,
\* and otherwise puts the engine into resync with tx_attempts = 0 and
\* S(RESYNCH request) on the line.
C22_BadBlockPolicy ==
  /\ ~t1_has_error(inst) => inst.tx_block_ctr = hist.sent
  /\ inst.fsm_state = t1_st_wait_response => inst.tx_attempts = hist.run
  /\ BadOutsideResync
       => IF call.pre.tx_attempts + 1 < DELIVERY_ATTEMPTS
            THEN /\ Flatten(inst.out) = CardRBlock(inst, call.pre.rx_seq_number, call.arg.ack)
                 /\ inst.tx_attempts = call.pre.tx_attempts + 1
                 /\ inst.fsm_state = t1_st_wait_response
                 /\ inst.evs = << >>
          ELSE IF call.pre.tx_block_ctr <= 1
            THEN /\ EventCodes(inst) = << t1_ev_err_comm_failure >>
                 /\ t1_has_error(inst)
                 /\ inst.out = << >>
          ELSE /\ inst.fsm_state = t1_st_resync
               /\ inst.tx_attempts = 0
               /\ Flatten(inst.out) = ResynchRequest(inst)
               /\ inst.evs = << >>

\* The tenth bad block in a row after more than one transmitted block has
\* started the resynchronisation
C22_Witness ==
  /\ BadOutsideResync
  /\ hist.run = DELIVERY_ATTEMPTS
  /\ call.pre.tx_attempts = DELIVERY_ATTEMPTS - 1
  /\ call.pre.tx_block_ctr > 1
  /\ inst.fsm_state = t1_st_resync
  /\ Flatten(inst.out) = ResynchRequest(inst)

\* The tenth bad block in a row after the only transmitted block is fatal
FirstBlockFailure ==
  /\ BadOutsideResync
  /\ hist.run = DELIVERY_ATTEMPTS
  /\ call.pre.tx_block_ctr = 1
  /\ EventCodes(inst) = << t1_ev_err_comm_failure >>

\* The last call ran handle_bad_block in resync
BadInResync ==
  /\ call.op = "bad"
  /\ call.pre.fsm_state = t1_st_resync
  /\ call.arg.kind = "tick"
       => timer_elapsed(call.pre.tmr_response_timeout, call.arg.elapsed_ms).elapsed

\* Timer ticks in the scenarios with a card that has stopped answering
QuietTicks == { 1500, TM_MAX }

\* The card answers the first command, at once, with a response in one I-block
BadCardReply ==
  /\ inst.fsm_state = t1_st_wait_response
  /\ hist.good < MaxGood
  /\ hist.run = 0
  /\ BadStep("card_reply", RespInf,
             t1_serial_in(inst, CardIBlock(inst, inst.rx_seq_number, FALSE, RespInf), TRUE), 0)

\* In resync the card sends a block with a damaged EDC
ResyncNoise ==
  /\ inst.fsm_state = t1_st_resync
  /\ BadBlock("edc")

NextResync ==
  \/ BadTransmit
  \/ BadCardReply
  \/ \E elapsed_ms \in QuietTicks : BadTick(elapsed_ms)
  \/ ResyncNoise

\* The step of NextResync in which t1_timer_task is called: BadTick, named by
\* the call it records
TickCalled ==
  /\ inst.fsm_state \in { t1_st_wait_response, t1_st_resync }
  /\ \E elapsed_ms \in QuietTicks :
       call' = Call("bad", [kind |-> "tick", ack |-> BadAck("tick"), elapsed_ms |-> elapsed_ms], inst)

\* t1_timer_task keeps being called while a block is outstanding
SpecResync ==
  InitBad /\ [][NextResync]_vars /\ WF_call(TickCalled)

ResyncSafe ==
  /\ inst.fsm_state = t1_st_resync
       => /\ hist.rsy = inst.tx_attempts + 1
          /\ hist.rsy <= RESYNC_ATTEMPTS
          /\ TmrNonZero(inst.tmr_response_timeout)
  /\ BadInResync
       => IF call.pre.tx_attempts + 1 < RESYNC_ATTEMPTS
            THEN /\ inst.fsm_state = t1_st_resync
                 /\ Flatten(inst.out) = ResynchRequest(inst)
                 /\ inst.tx_attempts = call.pre.tx_attempts + 1
                 /\ inst.evs = << >>
            ELSE /\ hist.rsy = RESYNC_ATTEMPTS
                 /\ EventCodes(inst) = << t1_ev_err_comm_failure >>
                 /\ t1_has_error(inst)
                 /\ inst.out = << >>

\* C23: in resync the engine has sent at most RESYNC_ATTEMPTS = 3 S(RESYNCH
\* request) blocks, the first on entering resync and one for each of the next
\* two bad blocks or timeouts; the bad block or timeout after the third raises
\* comm_failure and puts the engine into error.  The response timer runs in
\* resync, and while t1_timer_task keeps being called the engine leaves
\* resync for error.
C23_ResyncBounded ==
  /\ []ResyncSafe
  /\ (inst.fsm_state = t1_st_resync) ~> t1_has_error(inst)

\* The timeout after the third S(RESYNCH request) has ended the
\* resynchronisation with comm_failure
C23_Witness ==
  /\ BadInResync
  /\ call.arg.kind = "tick"
  /\ hist.rsy = RESYNC_ATTEMPTS
  /\ EventCodes(inst) = << t1_ev_err_comm_failure >>
  /\ t1_has_error(inst)

\* A block is outstanding and the engine waits for the card
Outstanding(i) ==
  i.fsm_state \in { t1_st_pps_exchange, t1_st_ifsd_setup, t1_st_wait_response, t1_st_resync }

\* While a block is outstanding the response timer or the interbyte timer runs
OutstandingArmed ==
  Outstanding(inst)
    => TmrNonZero(inst.tmr_response_timeout) \/ TmrNonZero(inst.tmr_interbyte_timeout)

\* The card answers the first command or none, and is silent from then on
NextQuiet ==
  \/ BadTransmit
  \/ BadCardReply
  \/ \E elapsed_ms \in QuietTicks : BadTick(elapsed_ms)

\* t1_timer_task keeps being called while a block is outstanding
SpecQuiet ==
  InitBad /\ [][NextQuiet]_vars /\ WF_call(TickCalled)

\* The card will not answer the I-block that is outstanding
Silent ==
  /\ inst.fsm_state = t1_st_wait_response
  /\ hist.run > 0 \/ hist.good = MaxGood

\* The engine has given up with comm_failure
GaveUp ==
  /\ t1_has_error(inst)
  /\ EventCodes(inst) = << t1_ev_err_comm_failure >>

\* Expiries of the response timer the engine goes through before it gives up
ExpiryBound(tx_block_ctr) ==
  IF tx_block_ctr <= 1 THEN DELIVERY_ATTEMPTS ELSE DELIVERY_ATTEMPTS + RESYNC_ATTEMPTS

QuietSafe ==
  /\ OutstandingArmed
  /\ Outstanding(inst) => hist.run < ExpiryBound(inst.tx_block_ctr)
  /\ t1_has_error(inst)
       => /\ GaveUp
          /\ call.arg.kind = "tick"
          /\ hist.run = ExpiryBound(call.pre.tx_block_ctr)

\* C24: with a card that stays silent after an I-block was sent, and
\* t1_timer_task called again and again with elapsed_ms > 0, the engine
\* raises comm_failure and enters error, after DELIVERY_ATTEMPTS expiries of
\* the response timer for the first block and after DELIVERY_ATTEMPTS +
\* RESYNC_ATTEMPTS for a later one; while a block is outstanding the response
\* timer or the interbyte timer is armed.
C24_SilentCardFails ==
  /\ []QuietSafe
  /\ Silent ~> GaveUp

\* The second command was never answered and the engine has given up after
\* thirteen expiries
C24_Witness ==
  /\ GaveUp
  /\ call.op = "bad"
  /\ call.arg.kind = "tick"
  /\ hist.good = MaxGood
  /\ hist.run = DELIVERY_ATTEMPTS + RESYNC_ATTEMPTS


(***************************************************************************)
(* Commands handed to the engine while an I-block is outstanding            *)
(* (the serial line works)                                                  *)
(***************************************************************************)
\* IFSC values and APDU lengths of the scenario, the number of
\* t1_transmit_apdu calls, and of R-blocks with an error code and of I-blocks
\* with M = 1 the card sends
QueueIfsc == { 2, IFS_MAX }
QueueLens == { 1, 3 }
MaxQueued == 2
MaxQueueNaks == 1
MaxQueueParts == 1

\* What the host and the card know of the exchange:
\*   queue  the I-blocks (M bit and INF) of the APDUs accepted by
\*          t1_transmit_apdu for which the card has not yet sent the block
\*          that answers them; the first is the one outstanding
\*   ns     N(S) of the last I-block the engine has output
\*   calls, naks, parts  number of t1_transmit_apdu calls, of error R-blocks
\*          and of I-blocks with M = 1 from the card
InitQueue ==
  /\ \E n \in QueueIfsc :
       /\ inst = Leave(Enter(t1_reset(t1_set_config(NewInst, "ifsc", n), FALSE), TRUE))
       /\ hist = [calls |-> 0, ifsc |-> n, naks |-> 0, ns |-> 0, parts |-> 0, queue |-> << >>]
  /\ call = Call("reset", FALSE, Leave(NewInst))
  /\ nsteps = 0
  /\ conn = << >>

QueueStep(op, arg, post, queue) ==
  /\ inst' = Leave(post)
  /\ call' = Call(op, arg, inst)
  /\ hist' = [hist EXCEPT !.queue = queue,
                          !.ns = IF OutIBlocks(post) = << >> THEN hist.ns
                                 ELSE OutIBlocks(post)[1].ns,
                          !.calls = IF op = "transmit_apdu" THEN hist.calls + 1 ELSE hist.calls,
                          !.naks = IF op = "card_nak" THEN hist.naks + 1 ELSE hist.naks,
                          !.parts = IF op = "card_part" THEN hist.parts + 1 ELSE hist.parts]
  /\ UNCHANGED << nsteps, conn >>

\* The host hands an APDU to the engine, whatever the engine is doing
QueueTransmit(len) ==
  /\ hist.calls < MaxQueued
  /\ LET post == t1_transmit_apdu(inst, ChainApdu(len), TRUE)
     IN  QueueStep("transmit_apdu", ChainApdu(len), post,
                   IF post.ret THEN hist.queue \o ExpectedChain(ChainApdu(len), hist.ifsc)
                               ELSE hist.queue)

\* The card acknowledges the chained I-block it has received
QueueAck ==
  /\ inst.fsm_state = t1_st_wait_response
  /\ hist.queue # << >>
  /\ Head(hist.queue).more
  /\ LET buf == CardRBlock(inst, 1 - hist.ns, t1_rblock_ack_ok)
     IN  QueueStep("card_ack", buf, t1_serial_in(inst, buf, TRUE), Tail(hist.queue))

\* The card reports the I-block it has received as damaged
QueueNak ==
  /\ inst.fsm_state = t1_st_wait_response
  /\ hist.naks < MaxQueueNaks
  /\ LET buf == CardRBlock(inst, hist.ns, t1_rblock_ack_err_edc)
     IN  QueueStep("card_nak", buf, t1_serial_in(inst, buf, TRUE), hist.queue)

\* The card has the whole command and sends a part of its answer in an I-block
\* with M = 1
QueuePart ==
  /\ inst.fsm_state = t1_st_wait_response
  /\ hist.parts < MaxQueueParts
  /\ hist.queue # << >>
  /\ ~Head(hist.queue).more
  /\ LET buf == CardIBlock(inst, inst.rx_seq_number, TRUE, RespInf)
     IN  QueueStep("card_part", buf, t1_serial_in(inst, buf, TRUE), hist.queue)

\* The card has the whole command and sends the last I-block of its answer
QueueReply ==
  /\ inst.fsm_state = t1_st_wait_response
  /\ hist.queue # << >>
  /\ ~Head(hist.queue).more
  /\ LET buf == CardIBlock(inst, inst.rx_seq_number, FALSE, RespInf)
     IN  QueueStep("card_reply", buf, t1_serial_in(inst, buf, TRUE), Tail(hist.queue))

NextQueue ==
  \/ \E len \in QueueLens : QueueTransmit(len)
  \/ QueueAck
  \/ QueueNak
  \/ QueuePart
  \/ QueueReply

SpecQueue == InitQueue /\ [][NextQueue]_vars

\* t1_transmit_apdu was called while the engine was busy
TransmitWhileBusy ==
  /\ call.op = "transmit_apdu"
  /\ call.pre.fsm_state \notin { t1_st_idle, t1_st_error }

\* The I-block of the last call, without its N(S)
OutIBlockData(i) ==
  [k \in DOMAIN OutIBlocks(i) |-> [more |-> OutIBlocks(i)[k].more, inf |-> OutIBlocks(i)[k].inf]]

\* C25: t1_transmit_apdu called while the engine is not idle queues the
\* blocks of the APDU, writes nothing to the serial line and leaves the FSM
\* state and the timers as they are.  Every I-block the engine writes is the
\* oldest block the card has not answered yet: a block that follows it is
\* written only by the call that accepts the card's answer to it, R(ack_ok)
\* with the next N(R) for a block with M = 1 or the last I-block of the card's
\* response, or by t1_transmit_apdu when the engine is idle.
C25_OneInFlight ==
  /\ TransmitWhileBusy
       => /\ inst.ret
          /\ inst.out = << >>
          /\ inst.evs = << >>
          /\ inst.fsm_state = call.pre.fsm_state
          /\ inst.tmr_response_timeout = call.pre.tmr_response_timeout
          /\ inst.tmr_interbyte_timeout = call.pre.tmr_interbyte_timeout
          /\ inst.tmr_atr_timeout = call.pre.tmr_atr_timeout
  /\ OutIBlocks(inst) # << >>
       => /\ hist.queue # << >>
          /\ OutIBlockData(inst) = << Head(hist.queue) >>
          /\ inst.fsm_state = t1_st_wait_response
          /\ \/ call.op = "transmit_apdu" /\ call.pre.fsm_state = t1_st_idle
             \/ call.op \in { "card_ack", "card_reply", "card_nak" }
  /\ inst.fsm_state = t1_st_idle <=> hist.queue = << >>
  /\ ~t1_has_error(inst)

\* A block queued while the first block of a chain was outstanding has been
\* written after the card's answer to the command before it
C25_Witness ==
  /\ call.op = "card_reply"
  /\ hist.calls >= 2
  /\ OutIBlocks(inst) # << >>
  /\ Len(hist.queue) >= 2
  /\ Len(inst.evs) = 1


(***************************************************************************)
(* Connection set-up: ATR, PPS exchange and IFSD set-up                     *)
(* (the serial line works)                                                  *)
(***************************************************************************)
\* TCK appended to an ATR: the XOR of T0 .. TCK is zero
AtrTck(atr) == atr \o << XorReduce(Tail(atr)) >>

\* T0 = 80: TD1.  TD1 = 81: TD2, T=1.  TD2 = 31: TA3 (IFSC 32), TB3, T=1
AtrNoTa2 == AtrTck(<< TS_CONVENTION_DIRECT, 128, 129, 49, 32, 0 >>)
\* TD1 = 81: TD2, T=1.  TD2 = 91: TA3, TD3, T=1.  TD3 = 11: TA4, T=1
AtrTa4 == AtrTck(<< TS_CONVENTION_DIRECT, 128, 129, 145, 32, 17, 2 >>)
\* TD1 = 01: T=1 and no further interface bytes
AtrTdLast == AtrTck(<< TS_CONVENTION_DIRECT, 128, 1 >>)
\* TD1 = 80: TD2, T=0.  TD2 = 01: T=1 and no further interface bytes
AtrTd2Last == AtrTck(<< TS_CONVENTION_DIRECT, 128, 128, 1 >>)
\* The same card with the inverse convention announced in TS
AtrInverse(atr) == [atr EXCEPT ![1] = TS_CONVENTION_INVERSE]

\* The cards of the scenario; AtrT1 has TA2 (TD1 = 91), AtrT0 offers no T=1
SetupAtrs ==
  { AtrT1(16), AtrNoTa2, AtrTa4, AtrTdLast, AtrTd2Last, AtrT0,
    AtrInverse(AtrT1(16)), AtrInverse(AtrNoTa2) }

\* The structure of an ATR after ISO 7816-3: the TD bytes, in order.  pos is
\* the place of the byte whose high nibble is the indicator Y of the next
\* group (T0 = atr[2] first)
RECURSIVE TdWalk(_, _)
TdWalk(atr, pos) ==
  LET y == atr[pos] \div 16
      tdpos == pos + (y % 2) + ((y \div 2) % 2) + ((y \div 4) % 2) + 1
  IN  IF y \div 8 = 0 THEN << >> ELSE << atr[tdpos] >> \o TdWalk(atr, tdpos)

TdBytes(atr) == TdWalk(atr, 2)

\* Some TD byte names T=1 in its low nibble
TdOffersT1(atr) == \E k \in DOMAIN TdBytes(atr) : TdBytes(atr)[k] % 16 = atr_prot_t1

\* TA2 is present: TD1 exists and announces a TA byte
HasTA2(atr) == TdBytes(atr) # << >> /\ (TdBytes(atr)[1] \div 16) % 2 = 1

\* Timer ticks, with a shorter one while the card is in the middle of a block,
\* and the values XORed into one byte of a PPS response
SetupTicks == { 150, 1500, TM_MAX }
PpsFlips == { 1, 16, UINT8_MAX }
\* Number of blocks the card sends during the IFSD set-up
MaxSetupBlocks == 2

\* The reader: serial or USB (pps_size 4), with or without automatic PPS
SetupInst(usb, features) ==
  t1_set_config(
    t1_set_config(
      t1_set_config(NewInst, "is_usb_reader", usb),
      "pps_size", IF usb = 1 THEN 4 ELSE 3),
    "dw_fetures", features)

\* What the card and the host know of the set-up:
\*   atr     the ATR the card has sent
\*   pps     the PPS request the card has received
\*   queued  t1_transmit_apdu was called during the set-up
\*   blocks  number of blocks the card has sent during the IFSD set-up
InitSetup ==
  /\ \E usb \in 0..1, features \in { 0, CCID_CLASS_AUTO_PPS_CUR } :
       inst = Leave(Enter(t1_reset(SetupInst(usb, features), TRUE), TRUE))
  /\ call = Call("reset", TRUE, Leave(NewInst))
  /\ nsteps = 0
  /\ hist = [atr |-> << >>, blocks |-> 0, pps |-> << >>, queued |-> FALSE]
  /\ conn = << >>

SetupStep(op, arg, post, h) ==
  /\ inst' = Leave(post)
  /\ call' = Call(op, arg, inst)
  /\ hist' = IF post.fsm_state = t1_st_pps_exchange /\ inst.fsm_state = t1_st_wait_atr
               THEN [h EXCEPT !.pps = Flatten(post.out)]
               ELSE h
  /\ UNCHANGED << nsteps, conn >>

\* The card answers the reset
SetupAtr(atr) ==
  /\ inst.fsm_state = t1_st_wait_atr
  /\ hist.atr = << >>
  /\ SetupStep("atr", atr, t1_serial_in(inst, atr, TRUE), [hist EXCEPT !.atr = atr])

\* Time passes during the set-up
SetupTick(elapsed_ms) ==
  /\ inst.fsm_state \in { t1_st_wait_atr, t1_st_pps_exchange,
                          t1_st_ifsd_setup_prepare, t1_st_ifsd_setup }
  /\ elapsed_ms = 150 => inst.fsm_state = t1_st_ifsd_setup /\ inst.rx_buf_idx > 0
  /\ SetupStep("tick", elapsed_ms, t1_timer_task(inst, elapsed_ms, TRUE), hist)

\* The card answers the PPS request: with the request, or with the request
\* changed in byte k
SetupPps(k, flip) ==
  /\ inst.fsm_state = t1_st_pps_exchange
  /\ inst.rx_buf_idx = 0
  /\ k \in 0..Len(hist.pps)
  /\ k = 0 => flip = 1
  /\ LET rsp == [j \in DOMAIN hist.pps |->
                   IF j = k THEN BitXor(hist.pps[j], flip) ELSE hist.pps[j]]
     IN  SetupStep("pps", rsp, t1_serial_in(inst, rsp, TRUE), hist)

\* The card's blocks during the IFSD set-up
IfsReplies == { "response", "request", "rblock", "edc", "partial" }
IfsBlock(i, kind) ==
  IF kind = "response" THEN CardSBlock(i, t1_sblock_cmd_ifs, TRUE, << i.config.ifsd >>)
  ELSE IF kind = "request" THEN CardSBlock(i, t1_sblock_cmd_ifs, FALSE, << IFS_MIN >>)
  ELSE IF kind = "rblock" THEN CardRBlock(i, 0, t1_rblock_ack_ok)
  ELSE IF kind = "partial"
    THEN Slice(CardSBlock(i, t1_sblock_cmd_ifs, TRUE, << i.config.ifsd >>), 1, 2)
  ELSE Corrupt(CardSBlock(i, t1_sblock_cmd_ifs, TRUE, << i.config.ifsd >>))

SetupIfs(kind) ==
  /\ inst.fsm_state = t1_st_ifsd_setup
  /\ inst.rx_buf_idx = 0
  /\ hist.blocks < MaxSetupBlocks
  /\ SetupStep("ifs", kind, t1_serial_in(inst, IfsBlock(inst, kind), TRUE),
               [hist EXCEPT !.blocks = hist.blocks + 1])

\* The host hands over its first command before the set-up is over
SetupTransmit ==
  /\ inst.fsm_state \in { t1_st_pps_exchange, t1_st_ifsd_setup_prepare, t1_st_ifsd_setup }
  /\ ~hist.queued
  /\ \E apdu \in ApduSet :
       SetupStep("transmit_apdu", apdu, t1_transmit_apdu(inst, apdu, TRUE),
                 [hist EXCEPT !.queued = TRUE])

NextSetup ==
  \/ \E atr \in SetupAtrs : SetupAtr(atr)
  \/ \E elapsed_ms \in SetupTicks : SetupTick(elapsed_ms)
  \/ \E k \in 0..4, flip \in PpsFlips : SetupPps(k, flip)
  \/ \E kind \in IfsReplies : SetupIfs(kind)
  \/ SetupTransmit

SpecSetup == InitSetup /\ [][NextSetup]_vars

\* The last call was the t1_timer_task call in which the interbyte timer
\* expired after the ATR, and the ATR timer did not
AtrParsed ==
  /\ call.op = "tick"
  /\ call.pre.fsm_state = t1_st_wait_atr
  /\ hist.atr # << >>
  /\ timer_elapsed(call.pre.tmr_interbyte_timeout, call.arg).elapsed
  /\ ~timer_elapsed(call.pre.tmr_atr_timeout, call.arg).elapsed

InverseAtr == hist.atr # << >> /\ hist.atr[1] = TS_CONVENTION_INVERSE

SetupUnderWay ==
  inst.fsm_state \in { t1_st_pps_exchange, t1_st_ifsd_setup_prepare, t1_st_ifsd_setup,
                       t1_st_idle, t1_st_wait_response }

\* The t1_timer_task call of the last step, made for the same card with the
\* direct convention in TS
DirectTwin ==
  t1_timer_task([call.pre EXCEPT !.rx_buf[0] = TS_CONVENTION_DIRECT], call.arg, TRUE)

Decoded == parse_atr(call.pre.rx_buf, call.pre.rx_buf_idx)

\* C27 as stated: for a complete, well-formed ATR parse_atr reports
\* t1_supported exactly if some TD byte has the protocol identifier 1 in its
\* low nibble, whatever its high nibble is.
C27_TdProtocol ==
  AtrParsed
    => /\ Decoded.ok
       /\ Decoded.atr.t1_supported <=> TdOffersT1(hist.atr)

\* What parse_atr does: the protocol identifier of a TD byte counts only if the
\* high nibble of that byte is not zero
TdProtocolSeen ==
  AtrParsed
    => /\ Decoded.ok
       /\ Decoded.atr.t1_supported
            <=> \E k \in DOMAIN TdBytes(hist.atr) :
                  /\ TdBytes(hist.atr)[k] % 16 = atr_prot_t1
                  /\ TdBytes(hist.atr)[k] \div 16 # 0
       /\ Decoded.atr.t1_supported <=> inst.evs[1].code = t1_ev_atr_received
       /\ ~Decoded.atr.t1_supported
            => EventCodes(inst) = << t1_ev_err_incompatible >> /\ t1_has_error(inst)

\* The card with TD1 = 01 has been turned away as incompatible
TdLastRefused ==
  /\ AtrParsed
  /\ hist.atr = AtrTdLast
  /\ EventCodes(inst) = << t1_ev_err_incompatible >>

\* The reader does the PPS exchange itself
AutoPps(i) == BitAnd(i.config.dw_fetures, CCID_CLASS_AUTO_PPS_CUR) # 0

\* The PPS request the engine writes
PpsRequest(i) ==
  IF i.config.is_usb_reader = 0
    THEN << PPSS, 1, 254 >>
    ELSE << PPSS, 17, i.config.ta1_value, BitXor(BitXor(PPSS, 17), i.config.ta1_value) >>

\* The last call has sent the PPS request and nothing else
PpsRequested ==
  /\ inst.fsm_state = t1_st_pps_exchange
  /\ Flatten(inst.out) = PpsRequest(inst)
  /\ EventCodes(inst) = << t1_ev_atr_received >>

\* The last call has gone on to the IFSD set-up without a PPS request
PpsSkipped ==
  /\ inst.fsm_state = t1_st_ifsd_setup_prepare
  /\ inst.out = << >>
  /\ EventCodes(inst) = << t1_ev_atr_received, t1_ev_pps_exchange_done >>

\* C28 as stated: after a valid T=1 ATR the PPS request is sent exactly if the
\* ATR has no TA2 and the reader has no automatic PPS; otherwise the engine
\* goes to ifsd_setup_prepare without a PPS request.
C28_PpsWhenNegotiable ==
  AtrParsed /\ Decoded.ok /\ Decoded.atr.t1_supported
    => IF ~HasTA2(hist.atr) /\ ~AutoPps(call.pre)
         THEN PpsRequested
         ELSE PpsSkipped

\* What handle_atr does: it looks for the TA byte of the second group of
\* interface bytes for T=1 (t1_bytes[t1_atr_ta2]), not for TA2
PpsWhenNoSecondT1Ta ==
  AtrParsed /\ Decoded.ok /\ Decoded.atr.t1_supported
    => IF Decoded.atr.t1_bytes[t1_atr_ta2] = -1 /\ ~AutoPps(call.pre)
         THEN PpsRequested
         ELSE PpsSkipped

\* TA2 is what the parser has stored as global_bytes[t1_atr_ta2]
Ta2IsGlobal ==
  AtrParsed /\ Decoded.ok
    => (HasTA2(hist.atr) <=> Decoded.atr.global_bytes[t1_atr_ta2] # -1)

\* The card with TA2 has been sent a PPS request
Ta2CardAsked ==
  /\ AtrParsed
  /\ hist.atr = AtrT1(16)
  /\ PpsRequested

\* The card without TA2, with a fourth TA, has not been sent a PPS request
Ta4CardNotAsked ==
  /\ AtrParsed
  /\ hist.atr = AtrTa4
  /\ ~AutoPps(call.pre)
  /\ PpsSkipped

\* The card has answered the PPS request with a response of the full length
PpsAnswered == call.op = "pps" /\ call.pre.fsm_state = t1_st_pps_exchange

PpsDone ==
  /\ EventCodes(inst) = << t1_ev_pps_exchange_done >>
  /\ inst.fsm_state = t1_st_ifsd_setup_prepare

PpsFailed ==
  /\ EventCodes(inst) = << t1_ev_pps_failed >>
  /\ t1_has_error(inst)

\* C29 as stated: the engine leaves pps_exchange for ifsd_setup_prepare, with
\* pps_exchange_done, only if the response equals the expected 3 (serial) or 4
\* (USB) bytes, PPS0 and PCK included; a response that differs in any byte
\* gives pps_failed and the error state.
C29_PpsMatch ==
  PpsAnswered
    => /\ hist.pps = PpsRequest(call.pre)
       /\ IF call.arg = hist.pps THEN PpsDone ELSE PpsFailed

\* What check_pps_response and check_usb_pps_response test, "==" binding
\* tighter than "^" and "|":
\*   serial  PPSS, PPS0 = 01, and PCK other than 01
\*   USB     PPSS, PPS1 = TA1, and PPS0 ^ PPS1 ^ PCK other than 00
PpsPasses(i, rsp) ==
  IF i.config.is_usb_reader = 0
    THEN rsp[1] = PPSS /\ rsp[2] = atr_prot_t1 /\ rsp[3] # 1
    ELSE /\ rsp[1] = PPSS
         /\ rsp[3] = i.config.ta1_value
         /\ BitXor(BitXor(rsp[2], rsp[3]), rsp[4]) # 0

PpsAsChecked ==
  PpsAnswered
    => /\ hist.pps = PpsRequest(call.pre)
       /\ IF PpsPasses(call.pre, call.arg) THEN PpsDone ELSE PpsFailed
       /\ call.arg = hist.pps => PpsDone

\* A response with a wrong PCK has been accepted
WrongPckAccepted ==
  /\ PpsAnswered
  /\ call.arg = << PPSS, 1, 255 >>
  /\ PpsDone

\* A response of the USB reader with a wrong PPS0 has been accepted
WrongPps0Accepted ==
  /\ PpsAnswered
  /\ Len(call.arg) = 4
  /\ call.arg[2] = 1
  /\ PpsDone

\* The last call was t1_timer_task with the engine in ifsd_setup_prepare
PrepareTick ==
  /\ call.op = "tick"
  /\ call.pre.fsm_state = t1_st_ifsd_setup_prepare

\* The last call was t1_timer_task in ifsd_setup, and the response timer or
\* the interbyte timer expired in it
IfsdTimeout ==
  /\ call.op = "tick"
  /\ call.pre.fsm_state = t1_st_ifsd_setup
  /\ \/ timer_elapsed(call.pre.tmr_response_timeout, call.arg).elapsed
     \/ timer_elapsed(call.pre.tmr_interbyte_timeout, call.arg).elapsed

\* The card's S(IFS response) has arrived in ifsd_setup
IfsdAnswered ==
  /\ call.op = "ifs"
  /\ call.arg = "response"
  /\ call.pre.fsm_state = t1_st_ifsd_setup

Connected == \E k \in DOMAIN inst.evs : inst.evs[k].code = t1_ev_connect

\* C30: the t1_timer_task call that finds the engine in ifsd_setup_prepare
\* writes S(IFS request) with INF = the configured IFSD and enters
\* ifsd_setup.  connect is raised by the call that receives the card's
\* S(IFS response) in ifsd_setup and by no other; it leaves the engine idle,
\* or in wait_response with the queued I-block written.  A response timeout
\* or interbyte timeout in ifsd_setup raises comm_failure (one event for each
\* of the two timers that expires in the call) and ends in error.
C30_SetupOrder ==
  /\ PrepareTick
       => /\ Flatten(inst.out) =
               CardSBlock(inst, t1_sblock_cmd_ifs, FALSE, << call.pre.config.ifsd >>)
          /\ inst.fsm_state = t1_st_ifsd_setup
          /\ inst.evs = << >>
          /\ inst.tmr_response_timeout =
               timer_elapsed(Tmr(inst.config.tm_response), call.arg).timer
  /\ Connected <=> IfsdAnswered
  /\ IfsdAnswered
       => /\ EventCodes(inst) = << t1_ev_connect >>
          /\ IF hist.queued
               THEN /\ inst.fsm_state = t1_st_wait_response
                    /\ Len(OutIBlocks(inst)) = 1
               ELSE /\ inst.fsm_state = t1_st_idle
                    /\ inst.out = << >>
  /\ IfsdTimeout
       => /\ EventCodes(inst) =
               IF /\ timer_elapsed(call.pre.tmr_response_timeout, call.arg).elapsed
                  /\ timer_elapsed(call.pre.tmr_interbyte_timeout, call.arg).elapsed
                 THEN << t1_ev_err_comm_failure, t1_ev_err_comm_failure >>
                 ELSE << t1_ev_err_comm_failure >>
          /\ t1_has_error(inst)
          /\ inst.out = << >>
  /\ inst.fsm_state \in { t1_st_idle, t1_st_wait_response } => Connected

\* connect after the IFSD set-up, with the command that was queued during the
\* set-up on its way
C30_Witness ==
  /\ IfsdAnswered
  /\ hist.queued
  /\ EventCodes(inst) = << t1_ev_connect >>
  /\ inst.fsm_state = t1_st_wait_response

\* The interbyte timer has ended the IFSD set-up
IfsdInterbyteTimeout ==
  /\ IfsdTimeout
  /\ call.pre.rx_buf_idx > 0
  /\ ~timer_elapsed(call.pre.tmr_response_timeout, call.arg).elapsed
  /\ EventCodes(inst) = << t1_ev_err_comm_failure >>


(***************************************************************************)
(* Resynchronisation: what the engine does with S(RESYNCH response)         *)
(***************************************************************************)
\* Commands the host sends, S-blocks and response blocks the card sends, and
\* resynchronisations the card answers, in one scenario
MaxRsyApdus == 2
MaxRsyGood == 1
MaxRsyParts == 1
MaxResynchs == 1

\* The k-th command of the host
RsyApdu(k) == << 0, 164, 4, k >>

\* An event with this code was raised by the last call
Raised(i, code) == \E k \in DOMAIN i.evs : i.evs[k].code = code

\* hist: setup  the engine was reset with wait_atr and went through the set-up
\*       pps    the PPS request the card has received
\*       tx     commands handed to t1_transmit_apdu
\*       good   S(IFS ...) blocks the card has sent
\*       rsy    S(RESYNCH response) blocks the card has sent
\*       rsp    the INF fields, concatenated, of the I-blocks of the response
\*              chain the card is sending or has just completed
\*       done   the chain in rsp is complete
\*       conn   connect events raised
\*       cur    the last I-block the engine has output; prev the one before,
\*              NoBlock if cur is the first after t1_reset or after the
\*              S(RESYNCH response)
InitRsy ==
  /\ \E wait_atr \in BOOLEAN :
       /\ inst = Leave(Enter(t1_reset(NewInst, wait_atr), TRUE))
       /\ call = Call("reset", wait_atr, Leave(NewInst))
       /\ hist = [setup |-> wait_atr, pps |-> << >>, tx |-> 0, good |-> 0, rsy |-> 0,
                  rsp |-> << >>, done |-> FALSE, conn |-> 0,
                  cur |-> NoBlock, prev |-> NoBlock]
  /\ nsteps = 0
  /\ conn = << >>

RsyStep(op, arg, post, h) ==
  LET o == IF post.fsm_state = t1_st_pps_exchange THEN << >> ELSE OutIBlocks(post)
      n == Cardinality({ k \in DOMAIN post.evs : post.evs[k].code = t1_ev_connect })
  IN  /\ inst' = Leave(post)
      /\ call' = Call(op, arg, inst)
      /\ hist' = [h EXCEPT !.conn = h.conn + n,
                           !.prev = IF o = << >> THEN h.prev ELSE h.cur,
                           !.cur = IF o = << >> THEN h.cur ELSE o[1],
                           !.pps = IF post.fsm_state = t1_st_pps_exchange /\ post.out # << >>
                                     THEN Flatten(post.out) ELSE h.pps]
      /\ UNCHANGED << nsteps, conn >>

\* No bad block is being counted: once the line goes bad it stays bad until
\* the engine resynchronises or gives up
Quiet == inst.tx_attempts = 0 \/ inst.fsm_state = t1_st_idle

\* The card answers the reset
RsyAtr ==
  /\ inst.fsm_state = t1_st_wait_atr
  /\ inst.rx_buf_idx = 0
  /\ RsyStep("atr", AtrT1(16), t1_serial_in(inst, AtrT1(16), TRUE), hist)

\* The card repeats the PPS request
RsyPps ==
  /\ inst.fsm_state = t1_st_pps_exchange
  /\ inst.rx_buf_idx = 0
  /\ RsyStep("pps", hist.pps, t1_serial_in(inst, hist.pps, TRUE), hist)

\* Time passes while the engine waits for the end of the ATR, prepares the
\* IFSD request, or is idle with a timer running
RsyTick ==
  /\ inst.fsm_state \in { t1_st_wait_atr, t1_st_ifsd_setup_prepare, t1_st_idle }
  /\ inst.fsm_state = t1_st_idle => TmrNonZero(inst.tmr_response_timeout)
  /\ inst.fsm_state = t1_st_wait_atr => inst.rx_buf_idx > 0
  /\ RsyStep("tick", TM_MAX, t1_timer_task(inst, TM_MAX, TRUE), hist)

\* The host hands over the next command, whatever the engine is doing
RsyTransmit ==
  /\ inst.fsm_state \notin { t1_st_error, t1_st_wait_atr, t1_st_pps_exchange }
  /\ Quiet
  /\ hist.tx < MaxRsyApdus
  /\ RsyStep("transmit_apdu", RsyApdu(hist.tx + 1),
             t1_transmit_apdu(inst, RsyApdu(hist.tx + 1), TRUE),
             [hist EXCEPT !.tx = hist.tx + 1])

\* The card sends S(IFS request) or S(IFS response); the answer to the
\* S(IFS request) of the engine is not counted in good
RsyIfs(is_response) ==
  /\ inst.fsm_state \in { t1_st_ifsd_setup, t1_st_wait_response }
  /\ Quiet
  /\ hist.good < MaxRsyGood \/ (is_response /\ inst.fsm_state = t1_st_ifsd_setup)
  /\ RsyStep(IF is_response THEN "ifs_response" ELSE "ifs_request", IFS_MAX,
             t1_serial_in(inst, CardSBlock(inst, t1_sblock_cmd_ifs, is_response,
                                           << IFS_MAX >>), TRUE),
             IF is_response /\ inst.fsm_state = t1_st_ifsd_setup
               THEN hist ELSE [hist EXCEPT !.good = hist.good + 1])

\* The card sends the next I-block of its response, with the N(S) that is due
RsyReply(more) ==
  /\ inst.fsm_state = t1_st_wait_response
  /\ Quiet
  /\ LET sofar == IF hist.done THEN << >> ELSE hist.rsp
         inf == RespData(Len(sofar), 2)
     IN  /\ more => Len(sofar) < 2 * MaxRsyParts
         /\ RsyStep("reply", [more |-> more, inf |-> inf],
                    t1_serial_in(inst, CardIBlock(inst, inst.rx_seq_number, more, inf), TRUE),
                    [hist EXCEPT !.rsp = sofar \o inf, !.done = ~more])

\* The card sends a block with a damaged EDC
RsyBad ==
  /\ inst.fsm_state \in { t1_st_ifsd_setup, t1_st_wait_response, t1_st_resync }
  /\ RsyStep("bad", << >>,
             t1_serial_in(inst, Corrupt(CardRBlock(inst, 0, t1_rblock_ack_ok)), TRUE),
             hist)

\* The card answers S(RESYNCH request) and starts afresh
RsyResynch ==
  /\ inst.fsm_state = t1_st_resync
  /\ hist.rsy < MaxResynchs
  /\ RsyStep("resynch", << >>,
             t1_serial_in(inst, CardSBlock(inst, t1_sblock_cmd_resynch, TRUE, << >>), TRUE),
             [hist EXCEPT !.rsy = hist.rsy + 1, !.rsp = << >>, !.done = FALSE,
                          !.cur = NoBlock, !.prev = NoBlock])

NextRsy ==
  \/ RsyAtr
  \/ RsyPps
  \/ RsyTick
  \/ RsyTransmit
  \/ \E is_response \in BOOLEAN : RsyIfs(is_response)
  \/ \E more \in BOOLEAN : RsyReply(more)
  \/ RsyBad
  \/ RsyResynch

SpecRsy == InitRsy /\ [][NextRsy]_vars

\* The last call found the engine in resync
InResync == call.pre.fsm_state = t1_st_resync

\* C31 as stated: from resync the engine moves to wait_response or to error
\* only, never to idle.
C31_ResyncExits ==
  InResync => inst.fsm_state \in { t1_st_resync, t1_st_wait_response, t1_st_error }

\* An S(RESYNCH response) was received in resync
ResynchAnswered == InResync /\ call.op = "resynch"

\* C31, amended: from resync the engine moves to wait_response when
\* S(RESYNCH response) arrives and the TX FIFO holds a block, which is sent
\* again; to idle when S(RESYNCH response) arrives and the TX FIFO is empty,
\* with no output and no event; and to error, with comm_failure, on the bad
\* block after the third S(RESYNCH request).  Everything else leaves it in
\* resync.
C31_ResyncExitsFifo ==
  InResync
    => /\ inst.fsm_state \in { t1_st_resync, t1_st_wait_response, t1_st_idle, t1_st_error }
       /\ inst.fsm_state = t1_st_wait_response
            <=> ResynchAnswered /\ tx_fifo_has_block(call.pre)
       /\ inst.fsm_state = t1_st_wait_response
            => /\ Len(OutIBlocks(inst)) = 1
               /\ inst.evs = << >>
       /\ inst.fsm_state = t1_st_idle
            <=> ResynchAnswered /\ ~tx_fifo_has_block(call.pre)
       /\ inst.fsm_state = t1_st_idle
            => /\ inst.out = << >>
               /\ inst.evs = << >>
       /\ inst.fsm_state = t1_st_error
            <=> /\ call.op = "bad"
                /\ call.pre.tx_attempts + 1 = RESYNC_ATTEMPTS
       /\ inst.fsm_state = t1_st_error
            => EventCodes(inst) = << t1_ev_err_comm_failure >>

\* S(RESYNCH response) has found the TX FIFO empty during the set-up and the
\* engine has gone idle
C31_Witness ==
  /\ ResynchAnswered
  /\ ~tx_fifo_has_block(call.pre)
  /\ hist.setup
  /\ hist.conn = 0
  /\ inst.fsm_state = t1_st_idle

\* S(RESYNCH response) has made the engine send the head of the TX FIFO again
ResyncToWaitResponse ==
  /\ ResynchAnswered
  /\ tx_fifo_has_block(call.pre)
  /\ inst.fsm_state = t1_st_wait_response


\* The last call delivered an S(IFS response)
IfsAnswered == call.op = "ifs_response"

\* C37 as stated: connect is raised at most once between two resets, and only
\* for an S(IFS response) received in ifsd_setup; an S(IFS response) received
\* in wait_response raises no connect and makes the engine send no I-block.
C37_ConnectOnce ==
  /\ hist.conn <= 1
  /\ Raised(inst, t1_ev_connect)
       => IfsAnswered /\ call.pre.fsm_state = t1_st_ifsd_setup
  /\ IfsAnswered /\ call.pre.fsm_state = t1_st_wait_response
       => /\ ~Raised(inst, t1_ev_connect)
          /\ OutIBlocks(inst) = << >>

\* What the code does: an S(IFS response) received in ifsd_setup or in
\* wait_response stops the response timer, sends the head of the TX FIFO if
\* there is one (again, if it was in flight) and raises connect; nothing else
\* raises connect
IfsResponseAnyState ==
  /\ Raised(inst, t1_ev_connect) <=> IfsAnswered
  /\ IfsAnswered
       => /\ EventCodes(inst) = << t1_ev_connect >>
          /\ inst.tx_attempts = 0
          /\ IF tx_fifo_has_block(call.pre)
               THEN /\ inst.fsm_state = t1_st_wait_response
                    /\ Len(OutIBlocks(inst)) = 1
                    /\ call.pre.fsm_state = t1_st_wait_response
                         => OutIBlocks(inst) = << hist.prev >>
                    /\ inst.tx_block_ctr = call.pre.tx_block_ctr + 1
               ELSE /\ inst.fsm_state = t1_st_idle
                    /\ inst.out = << >>
                    /\ ~TmrNonZero(inst.tmr_response_timeout)

\* A second connect was raised after the set-up, for an S(IFS response) that
\* arrived while a command was in flight; the command was sent again
ConnectTwice ==
  /\ hist.setup
  /\ hist.conn = 2
  /\ IfsAnswered
  /\ call.pre.fsm_state = t1_st_wait_response
  /\ OutIBlocks(inst) = << hist.prev >>

\* connect was raised by an engine that was reset without waiting for an ATR
ConnectWithoutSetup ==
  /\ ~hist.setup
  /\ Raised(inst, t1_ev_connect)

\* The content of an I-block, without its N(S)
Content(b) == [more |-> b.more, inf |-> b.inf]

\* C38 as stated: the first I-block output after t1_reset and after an
\* S(RESYNCH response) carries N(S) = 0, and two I-blocks output one after
\* the other that are not the same block carry different N(S).
C38_Alternating ==
  /\ hist.cur # NoBlock /\ hist.prev = NoBlock => hist.cur.ns = 0
  /\ hist.cur # NoBlock /\ hist.prev # NoBlock /\ Content(hist.cur) # Content(hist.prev)
       => hist.cur.ns # hist.prev.ns

\* What the code keeps: until the first S(RESYNCH response) the N(S) alternate
\* from 0
AlternatingBeforeResynch ==
  hist.rsy = 0 => C38_Alternating

\* The N(S) of an I-block is fixed when the block is queued: the block that
\* S(RESYNCH response) makes the engine send carries the N(S) it was queued
\* with, which is the N(S) of the last I-block sent; the next block to be
\* queued gets N(S) = 0
ResynchKeepsSeq ==
  ResynchAnswered
    => /\ inst.tx_seq_number = 0
       /\ tx_fifo_has_block(call.pre)
            => /\ Len(OutIBlocks(inst)) = 1
               /\ OutIBlocks(inst)[1].ns = call.pre.tx_last_seq_number

\* After S(RESYNCH response) the second command went out again with N(S) = 1
ResentWithOne ==
  /\ ResynchAnswered
  /\ OutIBlocks(inst) # << >>
  /\ OutIBlocks(inst)[1].ns = 1
  /\ OutIBlocks(inst)[1].inf = RsyApdu(2)

\* After the resynchronisation two different commands in a row went out with
\* the same N(S)
SameSeqInARow ==
  /\ hist.rsy = 1
  /\ hist.prev # NoBlock
  /\ hist.cur.inf # hist.prev.inf
  /\ hist.cur.ns = hist.prev.ns

\* The last call has delivered a response to the host
ApduDelivered == call.op = "reply" /\ Raised(inst, t1_ev_apdu_received)

\* C39 as stated: the payload of apdu_received is the INF fields of the
\* I-blocks of one response chain; what was received of a chain before a
\* resynchronisation is not part of the response delivered afterwards.
C39_OneChain ==
  ApduDelivered => Received(inst) = << hist.rsp >>

\* What the code keeps: until the first S(RESYNCH response) the payload is
\* the chain the card has sent
OneChainBeforeResynch ==
  ApduDelivered /\ hist.rsy = 0 => Received(inst) = << hist.rsp >>

\* S(RESYNCH response) leaves the APDU buffer as it is
ResynchKeepsApdu ==
  ResynchAnswered
    => /\ inst.rx_apdu_len = call.pre.rx_apdu_len
       /\ inst.rx_new_apdu = call.pre.rx_new_apdu
       /\ ApduBuf(inst) = ApduBuf(call.pre)

\* The response delivered after the resynchronisation begins with the INF of
\* the I-block that was received before it
StaleInfDelivered ==
  /\ ApduDelivered
  /\ hist.rsy = 1
  /\ hist.rsp = RespData(0, 2)
  /\ Received(inst) = << RespData(0, 2) \o RespData(0, 2) >>


(***************************************************************************)
(* Configuration values: t1_set_config, the ATR, S(IFS request) and         *)
(* S(WTX request)                                                           *)
(***************************************************************************)
\* t1_set_config calls and S-block requests of the card in one scenario
MaxCfgSets == 2
MaxCfgBlocks == 2

\* TA3 of the cards, INF of the S(IFS request) and S(WTX request) blocks (-1:
\* no INF field), and what the host hands to t1_set_config
CfgTa3 == { 0, 16, UINT8_MAX }
CfgIfsValues == { -1, 0, IFS_MIN, 32, IFS_MAX, UINT8_MAX }
CfgWtxValues == { 1, 2, 3, UINT8_MAX }
CfgSettings ==
  ({ "ifsc" } \X { 0, IFS_MIN, IFS_MAX, UINT8_MAX })
    \cup ({ "tm_response" } \X { 0, 1, 30000, TM_MAX, TM_MAX + 1 })
    \cup ({ "tm_response_max" } \X { 1, 50000 })
    \cup ({ "tm_none" } \X { 1 })

\* hist: sets    t1_set_config calls made
\*       blocks  S-block requests the card has sent
\*       tx      commands handed to t1_transmit_apdu
\*       pps     the PPS request the card has received
\*       ta3     TA3 of the ATR the card has sent, -1 before the ATR
InitCfg ==
  /\ \E wait_atr \in BOOLEAN :
       /\ inst = Leave(Enter(t1_reset(NewInst, wait_atr), TRUE))
       /\ call = Call("reset", wait_atr, Leave(NewInst))
  /\ hist = [sets |-> 0, blocks |-> 0, tx |-> 0, pps |-> << >>, ta3 |-> -1]
  /\ nsteps = 0
  /\ conn = << >>

CfgStep(op, arg, post, h) ==
  /\ inst' = Leave(post)
  /\ call' = Call(op, arg, inst)
  /\ hist' = [h EXCEPT !.pps = IF post.fsm_state = t1_st_pps_exchange /\ post.out # << >>
                                 THEN Flatten(post.out) ELSE h.pps]
  /\ UNCHANGED << nsteps, conn >>

\* The host changes a parameter, before the card is activated or while the
\* engine is idle
CfgSet(prm_id, value) ==
  /\ hist.sets < MaxCfgSets
  /\ inst.fsm_state \in { t1_st_wait_atr, t1_st_idle }
  /\ inst.rx_buf_idx = 0
  /\ CfgStep("set_config", [prm_id |-> prm_id, value |-> value],
             t1_set_config(Enter(inst, TRUE), prm_id, value),
             [hist EXCEPT !.sets = hist.sets + 1])

\* The card answers the reset
CfgAtr(ta3) ==
  /\ inst.fsm_state = t1_st_wait_atr
  /\ inst.rx_buf_idx = 0
  /\ CfgStep("atr", AtrT1(ta3), t1_serial_in(inst, AtrT1(ta3), TRUE),
             [hist EXCEPT !.ta3 = ta3])

\* Time passes while the engine waits for the end of the ATR or prepares the
\* IFSD request
CfgTick ==
  /\ inst.fsm_state \in { t1_st_wait_atr, t1_st_ifsd_setup_prepare }
  /\ inst.fsm_state = t1_st_wait_atr => inst.rx_buf_idx > 0
  /\ CfgStep("tick", TM_MAX, t1_timer_task(inst, TM_MAX, TRUE), hist)

\* The card repeats the PPS request
CfgPps ==
  /\ inst.fsm_state = t1_st_pps_exchange
  /\ CfgStep("pps", hist.pps, t1_serial_in(inst, hist.pps, TRUE), hist)

\* The card answers the S(IFS request) of the engine
CfgIfsResponse ==
  /\ inst.fsm_state = t1_st_ifsd_setup
  /\ CfgStep("ifs_response", inst.config.ifsd,
             t1_serial_in(inst, CardSBlock(inst, t1_sblock_cmd_ifs, TRUE,
                                           << inst.config.ifsd >>), TRUE),
             hist)

CfgTransmit ==
  /\ inst.fsm_state = t1_st_idle
  /\ hist.tx = 0
  /\ \E apdu \in ApduSet :
       CfgStep("transmit_apdu", apdu, t1_transmit_apdu(inst, apdu, TRUE),
               [hist EXCEPT !.tx = 1])

\* The INF field of an S-block request
CfgInf(v) == IF v < 0 THEN << >> ELSE << v >>

\* The card asks for another IFSC
CfgIfsRequest(v) ==
  /\ inst.fsm_state \in { t1_st_ifsd_setup, t1_st_wait_response }
  /\ hist.blocks < MaxCfgBlocks
  /\ CfgStep("ifs_request", v,
             t1_serial_in(inst, CardSBlock(inst, t1_sblock_cmd_ifs, FALSE, CfgInf(v)), TRUE),
             [hist EXCEPT !.blocks = hist.blocks + 1])

\* The card asks for more time
CfgWtxRequest(k) ==
  /\ inst.fsm_state \in { t1_st_ifsd_setup, t1_st_wait_response }
  /\ hist.blocks < MaxCfgBlocks
  /\ CfgStep("wtx_request", k,
             t1_serial_in(inst, CardSBlock(inst, t1_sblock_cmd_wtx, FALSE, CfgInf(k)), TRUE),
             [hist EXCEPT !.blocks = hist.blocks + 1])

NextCfg ==
  \/ \E s \in CfgSettings : CfgSet(s[1], s[2])
  \/ \E ta3 \in CfgTa3 : CfgAtr(ta3)
  \/ CfgTick
  \/ CfgPps
  \/ CfgIfsResponse
  \/ CfgTransmit
  \/ \E v \in CfgIfsValues : CfgIfsRequest(v)
  \/ \E k \in CfgWtxValues : CfgWtxRequest(k)

SpecCfg == InitCfg /\ [][NextCfg]_vars

\* The S(IFS response) the engine sends: it has no INF field
IfsResponse(i) == CardSBlock(i, t1_sblock_cmd_ifs, TRUE, << >>)

\* The last call delivered an S(IFS request) with one INF byte
IfsRequested == call.op = "ifs_request" /\ call.arg >= 0

Clamp(v, lo, hi) == IF v < lo THEN lo ELSE IF v > hi THEN hi ELSE v

\* C32 as stated: for every INF value v in 0..255 of an S(IFS request) the
\* engine sets IFSC to v clamped to [1, 254] and replies S(IFS response).
C32_IfsClamped ==
  IfsRequested
    => /\ inst.config.ifsc = Clamp(call.arg, IFS_MIN, IFS_MAX)
       /\ Flatten(inst.out) = IfsResponse(inst)

\* C32, amended: an S(IFS request) whose INF value v is within [1, 254] sets
\* IFSC to v and is answered with S(IFS response); one with v = 0 or v = 255,
\* or without INF field, is a bad block: IFSC keeps its value and the engine
\* answers R(err_other) with N(R) = rx_seq_number and counts an attempt.
C32_IfsInRange ==
  call.op = "ifs_request"
    => IF call.arg >= IFS_MIN /\ call.arg <= IFS_MAX
         THEN /\ inst.config.ifsc = call.arg
              /\ Flatten(inst.out) = IfsResponse(inst)
              /\ inst.tx_attempts = 0
              /\ inst.fsm_state = call.pre.fsm_state
              /\ inst.evs = << >>
         ELSE /\ inst.config = call.pre.config
              /\ Flatten(inst.out)
                   = CardRBlock(inst, call.pre.rx_seq_number, t1_rblock_ack_err_other)
              /\ inst.tx_attempts = call.pre.tx_attempts + 1
              /\ inst.fsm_state = call.pre.fsm_state
              /\ inst.evs = << >>

\* An S(IFS request) for IFSC 255 was refused
C32_Witness ==
  /\ IfsRequested
  /\ call.arg = UINT8_MAX
  /\ call.pre.config.ifsc = 16
  /\ inst.config.ifsc = 16
  /\ Flatten(inst.out) = CardRBlock(inst, call.pre.rx_seq_number, t1_rblock_ack_err_other)

\* An S(IFS request) for IFSC 254 was granted
IfsGranted ==
  /\ IfsRequested
  /\ call.arg = IFS_MAX
  /\ call.pre.config.ifsc # IFS_MAX
  /\ inst.config.ifsc = IFS_MAX

\* The S(WTX response) the engine sends: it has no INF field
WtxResponse(i) == CardSBlock(i, t1_sblock_cmd_wtx, TRUE, << >>)

\* The last call delivered an S(WTX request) with INF = k > 0 outside resync
WtxRequested ==
  /\ call.op = "wtx_request"
  /\ call.arg > 0
  /\ call.pre.fsm_state # t1_st_resync

\* C33: on an S(WTX request) with INF = k > 0 received outside resync the
\* engine replies S(WTX response), and the response timer afterwards is
\* min(tm_response * max(k, 2), tm_response_max).
C33_WtxTimeout ==
  WtxRequested
    => /\ Flatten(inst.out) = WtxResponse(inst)
       /\ inst.tmr_response_timeout
            = Tmr(Min(inst.config.tm_response * (IF call.arg < 2 THEN 2 ELSE call.arg),
                      inst.config.tm_response_max))
       /\ inst.fsm_state = call.pre.fsm_state
       /\ inst.evs = << >>

\* The timeout was tripled, and stayed below the limit
C33_Witness ==
  /\ WtxRequested
  /\ call.arg = 3
  /\ inst.config.tm_response = 1
  /\ inst.tmr_response_timeout = Tmr(3)
  /\ Flatten(inst.out) = WtxResponse(inst)

\* The timeout asked for was above tm_response_max
WtxLimited ==
  /\ WtxRequested
  /\ call.arg = 1
  /\ inst.config.tm_response = 30000
  /\ inst.config.tm_response_max = 50000
  /\ inst.tmr_response_timeout = Tmr(50000)

\* Every configuration value is inside the range ext_config declares for it
InRange(i, prm_id) ==
  /\ i.config[prm_id] >= ext_config[prm_id].min
  /\ i.config[prm_id] <= ext_config[prm_id].max

ConfigInRange(i) == \A prm_id \in ConfigIds : InRange(i, prm_id)

\* C34 as stated: every configuration value is inside its declared range in
\* every reachable state; IFSC is within [1, 254] whoever wrote it last.
C34_ConfigInRange ==
  /\ ConfigInRange(inst)
  /\ inst.config.ifsc >= IFS_MIN /\ inst.config.ifsc <= IFS_MAX

\* What the code keeps: every value but IFSC is inside its range, and an IFSC
\* outside [1, 254] is the TA3 of the ATR
ConfigInRangeButAtr ==
  /\ \A prm_id \in ConfigIds \ { "ifsc" } : InRange(inst, prm_id)
  /\ ~InRange(inst, "ifsc") => inst.config.ifsc = hist.ta3
  /\ call.op = "set_config"
       => inst.ret = /\ call.arg.prm_id \in ConfigIds
                     /\ call.arg.value >= ext_config[call.arg.prm_id].min
                     /\ call.arg.value <= ext_config[call.arg.prm_id].max
  /\ call.op = "set_config" /\ ~inst.ret => inst.config = call.pre.config

\* The engine is connected with the IFSC 255 of the ATR
AtrIfsc255 ==
  /\ inst.config.ifsc = UINT8_MAX
  /\ inst.fsm_state = t1_st_idle
  /\ hist.ta3 = UINT8_MAX

\* With the IFSC 0 of the ATR t1_transmit_apdu has refused the command
AtrIfsc0 ==
  /\ inst.config.ifsc = 0
  /\ call.op = "transmit_apdu"
  /\ ~inst.ret

\* t1_set_config has refused a value outside the range
SetConfigRefused ==
  /\ call.op = "set_config"
  /\ call.arg = [prm_id |-> "ifsc", value |-> UINT8_MAX]
  /\ ~inst.ret
  /\ inst.config = call.pre.config

\* The resynchronisation restores the default IFSC
ResynchRestoresIfsc ==
  /\ ConfigInRange(inst)
  /\ ResynchAnswered => inst.config.ifsc = ext_config.ifsc.def

\* The IFSC the card had asked for was replaced by the default
ResynchRestored ==
  /\ ResynchAnswered
  /\ call.pre.config.ifsc = IFS_MAX
  /\ inst.config.ifsc = ext_config.ifsc.def


(***************************************************************************)
(* Several blocks in one t1_serial_in call                                  *)
(***************************************************************************)
\* Commands of the host and t1_serial_in calls in one scenario
MaxBufApdus == 2
MaxBufCalls == 2

\* What the card sends: the last or a chained I-block of its response,
\* S(ABORT request), S(WTX request), a block with a damaged EDC, the first two
\* bytes of a block, nothing
BufKinds == { "final", "more", "abort", "wtx", "edc", "partial", "none" }

\* The block of one kind, for a reader that expects N(S) = ns
BufBlock(i, kind, ns) ==
  CASE kind = "final" -> CardIBlock(i, ns, FALSE, RespInf)
    [] kind = "more" -> CardIBlock(i, ns, TRUE, RespInf)
    [] kind = "abort" -> CardSBlock(i, t1_sblock_cmd_abort, FALSE, << >>)
    [] kind = "wtx" -> CardSBlock(i, t1_sblock_cmd_wtx, FALSE, << 1 >>)
    [] kind = "edc" -> Corrupt(CardRBlock(i, 0, t1_rblock_ack_ok))
    [] kind = "partial" -> << 0, 0 >>
    [] OTHER -> << >>

\* N(S) the reader expects after a block of this kind
BufNextSeq(i, kind) ==
  IF kind \in { "final", "more" } THEN 1 - i.rx_seq_number ELSE i.rx_seq_number

\* hist: tx     commands handed to t1_transmit_apdu
\*       calls  t1_serial_in calls made
InitBuf ==
  /\ inst = Leave(Enter(t1_reset(NewInst, FALSE), TRUE))
  /\ call = Call("reset", FALSE, Leave(NewInst))
  /\ hist = [tx |-> 0, calls |-> 0]
  /\ nsteps = 0
  /\ conn = << >>

BufStep(op, arg, post, h) ==
  /\ inst' = Leave(post)
  /\ call' = Call(op, arg, inst)
  /\ hist' = h
  /\ UNCHANGED << nsteps, conn >>

BufTransmit ==
  /\ inst.fsm_state \in { t1_st_idle, t1_st_wait_response }
  /\ inst.rx_buf_idx = 0
  /\ hist.tx < MaxBufApdus
  /\ BufStep("transmit_apdu", RsyApdu(hist.tx + 1),
             t1_transmit_apdu(inst, RsyApdu(hist.tx + 1), TRUE),
             [hist EXCEPT !.tx = hist.tx + 1])

\* One t1_serial_in call with the card's next block, followed in the same
\* buffer by another one or by the beginning of one
BufBlocks(first, second) ==
  /\ inst.fsm_state = t1_st_wait_response
  /\ inst.rx_buf_idx = 0
  /\ hist.calls < MaxBufCalls
  /\ first \notin { "partial", "none" }
  /\ LET b1 == BufBlock(inst, first, inst.rx_seq_number)
         b2 == BufBlock(inst, second, BufNextSeq(inst, first))
     IN  Strict(b1 \o b2,
                LAMBDA buf :
                  BufStep("blocks",
                          [first |-> b1, second |-> b2, complete |-> second # "partial"],
                          t1_serial_in(inst, buf, TRUE),
                          [hist EXCEPT !.calls = hist.calls + 1]))

NextBuf ==
  \/ BufTransmit
  \/ \E first, second \in BufKinds : BufBlocks(first, second)

SpecBuf == InitBuf /\ [][NextBuf]_vars

\* The last call carried two complete blocks
TwoBlocks == call.op = "blocks" /\ call.arg.second # << >> /\ call.arg.complete

\* The same bytes handed over in two calls, block by block
FirstAlone == t1_serial_in(call.pre, call.arg.first, TRUE)
SecondAlone ==
  StrictRec(Leave(FirstAlone), LAMBDA i : t1_serial_in(i, call.arg.second, TRUE))

\* C35 as stated: the events of a call that carries two complete blocks are
\* the event of the first block followed by the event of the second; an
\* error event of the first block puts the engine into error and ends the
\* processing.
C35_AllEventsDelivered ==
  TwoBlocks
    => /\ EventCodes(inst)
            = EventCodes(FirstAlone)
                \o (IF t1_has_error(FirstAlone) THEN << >> ELSE EventCodes(SecondAlone))
       /\ (\E k \in DOMAIN FirstAlone.evs : is_error(FirstAlone.evs[k]))
            => t1_has_error(inst)

\* The first block processed as handle_t1_data does in the middle of a
\* buffer: its event is kept in a local variable and not handled
FirstUnhandled ==
  Leave(handle_t1_data([Enter(call.pre, TRUE)
                          EXCEPT !.tmr_interbyte_timeout = Tmr(call.pre.config.tm_interbyte)],
                       call.arg.first))

\* What the code does: of two complete blocks in one buffer only the outcome
\* of the second reaches the event callback, whatever the first has returned
\* and whatever state it has left
LastBlockOnly ==
  TwoBlocks
    => LET last == StrictRec(FirstUnhandled,
                             LAMBDA i : handle_events(
                                          add_ret(handle_t1_data(i, call.arg.second))))
       IN  /\ inst.evs = last.evs
           /\ Core(Leave(inst)) = Core(Leave(last))
           /\ Len(inst.evs) <= 1

\* S(ABORT request) was followed in the same buffer by a block with a damaged
\* EDC: no event was raised and the engine goes on
AbortDropped ==
  /\ TwoBlocks
  /\ EventCodes(FirstAlone) = << t1_ev_err_sc_abort >>
  /\ inst.evs = << >>
  /\ inst.fsm_state = t1_st_wait_response

\* The last I-block of a response was followed in the same buffer by another
\* block: apdu_received was not raised
ApduDropped ==
  /\ TwoBlocks
  /\ EventCodes(FirstAlone) = << t1_ev_apdu_received >>
  /\ ~Raised(inst, t1_ev_apdu_received)

\* A complete block followed by the beginning of the next keeps its event
PartialKeepsEvent ==
  /\ call.op = "blocks"
  /\ ~call.arg.complete
  /\ EventCodes(inst) = << t1_ev_apdu_received >>
  /\ inst.rx_buf_idx = 2


(***************************************************************************)
(* connection_notifyAll with observers that call the connection             *)
(***************************************************************************)
\* Events created in one scenario
MaxDrainEvents == 5

\* connection_notifyAll up to its loops: the number of events is read and the
\* buffer is declared empty
connection_notifyAll_enter(s) ==
  [n_events |-> s.conn.event_idx,
   s |-> [s EXCEPT !.conn.event_idx = 0, !.conn.queued = << >>, !.conn.sched = @ - 1]]

\* The call of observer i for element p_event of event_buf: the observer is
\* handed what the element holds at the time of the call
connection_notifyAll_call(s, p_event, i) ==
  [s EXCEPT !.conn.seen = Append(@, << i, s.conn.event_buf[p_event] >>)]

\* hist: made   events created so far; event k carries the response k
\*       lost   create_event calls that raised
\*       drain  the connection_notifyAll call in progress: n_events, the
\*              element p_event and the observer i of the next call; n_events
\*              is -1 when none is in progress
\*       got    for every observer the responses it was called with
\*       inside some event was created by an observer during a drain
NoDrain == [n_events |-> -1, p_event |-> 0, i |-> 0]

InitDrain ==
  /\ \E n \in 1..MaxObservers :
       conn = [connection_make_new(TRUE, ACT).conn EXCEPT !.observers = n]
  /\ call = Call("make_new", << TRUE, ACT >>, << >>)
  /\ inst = NoInst
  /\ nsteps = 0
  /\ hist = [made |-> 0, lost |-> { }, drain |-> NoDrain,
             got |-> [i \in 1..MaxObservers |-> << >>], inside |-> FALSE]

\* An operation of the connection creates an event; between two scheduled
\* functions, or called by the observer that is being notified
Enqueued(s) == notify_observers_response(s, hist.made + 1)

DrainEnqueue ==
  /\ hist.drain = NoDrain
  /\ hist.made < MaxDrainEvents
  /\ LET post == Enqueued(Begin(Self))
     IN  /\ conn' = post.conn
         /\ hist' = [hist EXCEPT !.made = hist.made + 1,
                                 !.lost = IF post.conn.raised # ""
                                            THEN @ \cup { hist.made + 1 } ELSE @]
         /\ call' = Call("enqueue", hist.made + 1, [state |-> conn.state])
         /\ UNCHANGED << inst, nsteps >>

\* The scheduler runs the scheduled connection_notifyAll; it runs one
\* scheduled function at a time
DrainEnter ==
  /\ hist.drain = NoDrain
  /\ conn.sched > 0
  /\ LET e == connection_notifyAll_enter(Begin(Self))
     IN  /\ conn' = e.s.conn
         /\ hist' = [hist EXCEPT !.drain = IF e.n_events = 0 THEN NoDrain
                                           ELSE [n_events |-> e.n_events, p_event |-> 1, i |-> 1]]
         /\ call' = Call("notifyAll", e.n_events, [state |-> conn.state])
         /\ UNCHANGED << inst, nsteps >>

\* The next call of an observer; the observer creates reenter events, for
\* which the buffer has room, before it returns
RECURSIVE EnqueuedTimes(_, _, _)
EnqueuedTimes(s, first, n) ==
  IF n = 0 THEN s
  ELSE EnqueuedTimes(notify_observers_response(s, first), first + 1, n - 1)

DrainCall(reenter) ==
  /\ hist.drain # NoDrain
  /\ hist.made + reenter <= MaxDrainEvents
  /\ conn.event_idx + reenter <= CONN_MAX_EVENTS
  /\ LET d == hist.drain
         called == connection_notifyAll_call(Self, d.p_event, d.i)
         post == EnqueuedTimes(called, hist.made + 1, reenter)
         last == d.i = conn.observers
     IN  /\ conn' = post.conn
         /\ hist' = [hist EXCEPT
                       !.made = hist.made + reenter,
                       !.inside = @ \/ reenter > 0,
                       !.got[d.i] = Append(@, conn.event_buf[d.p_event].args),
                       !.drain = IF last /\ d.p_event = d.n_events THEN NoDrain
                                 ELSE IF last THEN [d EXCEPT !.p_event = @ + 1, !.i = 1]
                                 ELSE [d EXCEPT !.i = @ + 1]]
         /\ call' = Call("observer", [i |-> d.i, p_event |-> d.p_event, reenter |-> reenter],
                         [state |-> conn.state])
         /\ UNCHANGED << inst, nsteps >>

NextDrain ==
  \/ DrainEnqueue
  \/ DrainEnter
  \/ \E reenter \in 0..2 : DrainCall(reenter)

SpecDrain == InitDrain /\ [][NextDrain]_vars

\* Nothing is buffered and no connection_notifyAll is scheduled or running
Drained == hist.drain = NoDrain /\ conn.sched = 0 /\ conn.event_idx = 0

\* The events that were stored in the buffer, in the order of their creation
Stored == SelectSeq([k \in 1..hist.made |-> k], LAMBDA k : k \notin hist.lost)

\* C36 as stated: every event stored while an observer is registered is
\* delivered exactly once to each observer, also when observers create events
\* during the drain: no observer is called twice with an event, and when the
\* buffer is drained every observer has been called with every event.
C36_ExactlyOnce ==
  \A i \in 1..conn.observers :
    /\ \A j, k \in DOMAIN hist.got[i] : j # k => hist.got[i][j] # hist.got[i][k]
    /\ Drained => hist.got[i] = Stored

\* What the code keeps: while no observer creates an event during a drain,
\* every observer is called once with every stored event, in order
ExactlyOnceUndisturbed ==
  ~hist.inside
    => \A i \in 1..conn.observers :
         /\ \A j, k \in DOMAIN hist.got[i] : j # k => hist.got[i][j] # hist.got[i][k]
         /\ Drained => hist.got[i] = Stored

\* The first observer has created an event while it was notified of event 1:
\* the second observer was called with the new event twice and never with
\* event 1
OverwrittenInDrain ==
  /\ Drained
  /\ conn.observers = 2
  /\ hist.got[1] = << 1, 2 >>
  /\ hist.got[2] = << 2, 2 >>

\* One observer, notified of event 1, has created two events: event 2, which
\* was waiting in the buffer, was never delivered
OverwrittenAhead ==
  /\ Drained
  /\ conn.observers = 1
  /\ hist.lost = { }
  /\ hist.got[1] = << 1, 4, 3, 4 >>
  /\ 2 \notin { hist.got[1][k] : k \in DOMAIN hist.got[1] }


(***************************************************************************)
(* The blocking connect: wait_connect_blocking until the state changes      *)
(***************************************************************************)
\* Blocks the card sends during one connect
MaxWaitBlocks == 14

\* The PPS request the engine sends in this state
PpsOf(i) == Flatten(send_pps_request(Enter(i, TRUE)).out)

\* What the card may send next: the ATR, the PPS response, and during the
\* IFSD set-up and the resynchronisation an answer, a request of its own or a
\* block with a damaged EDC; once a block was damaged all further ones are
WaitInputs(i) ==
  IF i.fsm_state = t1_st_wait_atr
    THEN IF i.rx_buf_idx = 0 THEN { AtrT1(16) } ELSE { }
  ELSE IF i.fsm_state = t1_st_pps_exchange
    THEN IF i.rx_buf_idx = 0 THEN { PpsOf(i) } ELSE { }
  ELSE IF i.fsm_state = t1_st_ifsd_setup
    THEN { Corrupt(CardRBlock(i, 0, t1_rblock_ack_ok)) }
           \cup (IF i.tx_attempts = 0
                   THEN { CardSBlock(i, t1_sblock_cmd_ifs, TRUE, << i.config.ifsd >>),
                          CardSBlock(i, t1_sblock_cmd_ifs, FALSE, << IFS_MAX >>) }
                   ELSE { })
  ELSE IF i.fsm_state = t1_st_resync
    THEN { Corrupt(CardRBlock(i, 0, t1_rblock_ack_ok)),
           CardSBlock(i, t1_sblock_cmd_resynch, TRUE, << >>) }
  ELSE { }

\* hist: blocks  blocks the card has sent
\*       idle    the engine has been idle while the connection was connecting
\* A blocking connection without observers; the card is in the reader
InitWait ==
  /\ conn = connection_make_new(FALSE, ACT).conn
  /\ call = Call("make_new", << FALSE, ACT >>, << >>)
  /\ inst = NoInst
  /\ nsteps = 0
  /\ hist = [blocks |-> 0, idle |-> FALSE]

WaitStep(op, arg, post, blocks) ==
  /\ conn' = post.conn
  /\ inst' = post.t1
  /\ call' = Call(op, arg, Self)
  /\ hist' = [blocks |-> blocks,
              idle |-> hist.idle \/ (/\ post.conn.state = state_connecting
                                     /\ post.t1.fsm_state = t1_st_idle)]
  /\ UNCHANGED nsteps

\* connect(): the card is powered and the wait loop is entered
WaitConnectCalled ==
  /\ conn.pc = "api"
  /\ conn.state = state_disconnected
  /\ WaitStep("connect", protocol_na, connection_connect(Begin(Self), protocol_na), 0)

\* A pass of the loop of wait_connect_blocking in which the interface has
\* received a block of the card
WaitBytes(buf) ==
  /\ conn.pc = "wait_connect"
  /\ hist.blocks < MaxWaitBlocks
  /\ WaitStep("wait_connect", [buf |-> buf, elapsed |-> 0],
              wait_connect_blocking(Begin(Self), buf, 0), hist.blocks + 1)

\* A pass of the loop in which time has passed
WaitTick ==
  /\ conn.pc = "wait_connect"
  /\ WaitStep("wait_connect", [buf |-> << >>, elapsed |-> TM_MAX],
              wait_connect_blocking(Begin(Self), << >>, TM_MAX), hist.blocks)

NextWait ==
  \/ WaitConnectCalled
  \/ \E buf \in WaitInputs(inst) : WaitBytes(buf)
  \/ WaitTick

\* The step of NextWait that is a pass of the loop in which time has passed:
\* WaitTick, named by the call it records
TickPassed ==
  /\ conn.pc = "wait_connect"
  /\ call' = Call("wait_connect", [buf |-> << >>, elapsed |-> TM_MAX], Self)

\* The loop keeps running and the clock keeps ticking
SpecWait == InitWait /\ [][NextWait]_vars /\ WF_call(TickPassed)

Connecting == conn.state = state_connecting

\* A timer of the engine is running
TimerArmed(i) ==
  \/ TmrNonZero(i.tmr_atr_timeout)
  \/ TmrNonZero(i.tmr_interbyte_timeout)
  \/ TmrNonZero(i.tmr_response_timeout)

\* C40 as stated: the blocking connect leaves state connecting, and while the
\* connection is connecting the engine is never idle.
C40_ConnectTerminates ==
  /\ [](Connecting => inst.fsm_state # t1_st_idle)
  /\ Connecting ~> ~Connecting

\* While the connection is connecting, the loop is running and the engine is
\* not in error; it waits with a timer running or is about to send its
\* S(IFS request); it can be idle, and then the response timer is running.
\* The loop is left in state connected or error, error with an exception.
WaitSafe ==
  /\ Connecting
       => /\ conn.pc = "wait_connect"
          /\ inst.fsm_state # t1_st_error
          /\ inst.fsm_state # t1_st_wait_response
          /\ TimerArmed(inst) \/ inst.fsm_state = t1_st_ifsd_setup_prepare
          /\ inst.fsm_state = t1_st_idle => TmrNonZero(inst.tmr_response_timeout)
  /\ call.op = "wait_connect" /\ ~Connecting
       => /\ conn.pc = "api"
          /\ \/ conn.state = state_connected /\ conn.raised = ""
             \/ conn.state = state_error /\ conn.raised # ""

\* C40, amended: with a card that sends a bounded number of blocks the
\* blocking connect leaves state connecting, for connected or for error.  The
\* engine can be idle while the connection is connecting (after an
\* S(RESYNCH response)); a timer is running then, as in every state but
\* ifsd_setup_prepare.
C40_ConnectTerminatesQuietCard ==
  /\ []WaitSafe
  /\ Connecting ~> ~Connecting

\* The engine has become idle during the set-up, the connection is still
\* connecting
C40_Witness ==
  /\ Connecting
  /\ inst.fsm_state = t1_st_idle
  /\ TmrNonZero(inst.tmr_response_timeout)
  /\ conn.pc = "wait_connect"

\* From idle the connect has ended with 'smart card connection failed'
FailedFromIdle ==
  /\ call.op = "wait_connect"
  /\ call.pre.conn.state = state_connecting
  /\ hist.idle
  /\ conn.state = state_error
  /\ conn.raised = error_text(t1_ev_err_comm_failure)

\* The connect has succeeded
WaitConnected ==
  /\ call.op = "wait_connect"
  /\ conn.state = state_connected
  /\ conn.pc = "api"

(***************************************************************************)
(* The blocking connect with a card that never stops asking                 *)
(***************************************************************************)
\* Time between an answer of the engine and the next request of the card, ms
ChatDelay == 1

\* The card answers the reset and the PPS, and then sends S(IFS request)
ChatInputs(i) ==
  IF i.fsm_state = t1_st_ifsd_setup
    THEN { CardSBlock(i, t1_sblock_cmd_ifs, FALSE, << IFS_MAX >>) }
    ELSE WaitInputs(i) \ { Corrupt(CardRBlock(i, 0, t1_rblock_ack_ok)) }

\* A pass with a block of the card; during the set-up the card sends its
\* next request ChatDelay after the engine has answered the last one
ChatBytes(buf) ==
  /\ conn.pc = "wait_connect"
  /\ inst.fsm_state = t1_st_ifsd_setup => call.arg.elapsed # 0
  /\ WaitStep("wait_connect", [buf |-> buf, elapsed |-> 0],
              wait_connect_blocking(Begin(Self), buf, 0), 0)

\* Time that passes in a pass without a block
ChatElapsed(i) == IF i.fsm_state = t1_st_ifsd_setup THEN ChatDelay ELSE TM_MAX

\* A pass in which time has passed: ChatDelay after an answer of the engine
\* in the set-up, a time that ends every wait elsewhere
ChatTick ==
  /\ conn.pc = "wait_connect"
  /\ inst.fsm_state = t1_st_ifsd_setup => call.arg.elapsed = 0
  /\ WaitStep("wait_connect", [buf |-> << >>, elapsed |-> ChatElapsed(inst)],
              wait_connect_blocking(Begin(Self), << >>, ChatElapsed(inst)), 0)

NextChat ==
  \/ WaitConnectCalled
  \/ \E buf \in ChatInputs(inst) : ChatBytes(buf)
  \/ ChatTick

ChatTickPassed ==
  /\ conn.pc = "wait_connect"
  /\ inst.fsm_state = t1_st_ifsd_setup => call.arg.elapsed = 0
  /\ call' = Call("wait_connect", [buf |-> << >>, elapsed |-> ChatElapsed(inst)], Self)

SpecChat == InitWait /\ [][NextChat]_vars /\ WF_call(ChatTickPassed)

\* Violated under SpecChat: with a card that answers every S(IFS response)
\* with a new S(IFS request) the loop runs for ever
ChatTerminates == Connecting ~> ~Connecting

\* Under SpecChat the engine leaves the set-up in no other way either
ChatInSetup ==
  call.op = "wait_connect" /\ call.pre.t1.fsm_state = t1_st_ifsd_setup
    => Connecting /\ inst.fsm_state = t1_st_ifsd_setup /\ conn.raised = ""

====
